---- MODULE Spec2Model ----
(***************************************************************************)
(* Model of the Webots speed-car controller                                *)
(* (src/controllers/speed_car_controller/speed_car_controller.py).         *)
(*                                                                         *)
(* Numbers.  The controller computes on floats; the model computes on      *)
(* integers in fixed units, chosen so that every product of the code is    *)
(* exact:                                                                  *)
(*   lane angles, PID error / old_value / integral, obstacle bearing       *)
(*                                   : milliradians  (0.4 rad = 400)       *)
(*   steering angles, PID output, avoidance steer                          *)
(*                                   : microradians  (0.1 rad = 100000)    *)
(*   obstacle distance               : tenths of a length unit (2.0 = 20)  *)
(*   speed                           : km/h                                *)
(*   brake intensity                 : tenths (0.4 = 4)                    *)
(*   time                            : milliseconds                        *)
(* Sensor inputs are drawn from sets on which the two divisions of the     *)
(* code (the filter's mean, the avoidance quotient) are exact.             *)
(***************************************************************************)
EXTENDS Integers, Sequences, FiniteSets, TLC

\* ------------------------------------------------------------ constants
\* UNKNOWN = 99999.99, the "no reading" sentinel, in milliradians.
UNKNOWN == 99999990
\* INITIAL_SPEED_KPH = 50.0
INITIAL_SPEED_KPH == 50
\* PID gains: output (microrad) = KP*angle + KI*integral + KD*diff, the
\* operands in millirad: 0.25 -> 250, 0.006 -> 6, 2.0 -> 2000.
KP == 250
KI == 6
KD == 2000
\* FILTER_SIZE = 3
FILTER_SIZE == 3
\* the literal 30 of "-30 < self.integral < 30", in millirad
INTEGRAL_LIMIT == 30000
\* the literal 0.1 of the rate limit, in microrad
RATE_LIMIT == 100000
\* the literal 0.5 of the authority clamp, in microrad
AUTHORITY == 500000
\* the literal 0.4 of the avoidance cone and 0.25 of its offset, in millirad
CONE == 400
OFFSET == 250
\* the literal 0.02 rad per manual step, in microrad, and the step range 25
TRIM_STEP == 20000
TRIM_MAX == 25
\* the literals 250.0 (speed cap) and 5.0 (speed increment)
SPEED_MAX == 250
SPEED_INC == 5
\* the literal 0.4 of setBrakeIntensity, in tenths
PARTIAL_BRAKE == 4
\* the literals 50 (sensor period) and 0.1 s (BROADCAST_INTERVAL), in ms;
\* the timer compares floats, see BroadcastInterval
SENSOR_PERIOD == 50
BROADCAST_INTERVAL == 100

\* ------------------------------------------------------------ bounds
\* control steps explored from start-up by Spec and by SpecAvoid
MaxSteps == 4
MaxAvoidSteps == 8
\* control steps explored by SpecTrim and by SpecSpeed
MaxTrimSteps == 27
MaxSpeedSteps == 51
MaxTelemetrySteps == 4
MaxClients == 3
MaxTimerSteps == 12
MaxDecisionCalls == 5
MaxFrames == 16
MaxLookups == 3
MaxBridgeSteps == 7
\* tenths of a second from one frame of the detection program to the next
FramePeriod == 5

\* ------------------------------------------------------------ helpers
Max(a, b) == IF a >= b THEN a ELSE b
Min(a, b) == IF a <= b THEN a ELSE b
Abs(a) == IF a >= 0 THEN a ELSE -a
\* math.copysign(1, x) on the values the model draws (no negative zero)
CopySign(x) == IF x >= 0 THEN 1 ELSE -1
\* float division n / d, exact on the inputs drawn; truncated otherwise
Quot(n, d) == IF n >= 0 THEN n \div d ELSE -((-n) \div d)

RECURSIVE SumSeq(_)
SumSeq(s) == IF s = <<>> THEN 0 ELSE Head(s) + SumSeq(Tail(s))

\* ------------------------------------------------------------ floats
\* The broadcast timer is a Python float. A float x with 0 <= x < 4 that is
\* a multiple of 2^-64 is modelled exactly, as its 66 binary digits (digit i
\* weighs 2^(2 - i)) held in Limbs limbs of LimbBits digits each, the most
\* significant first. Every float the timer takes is of that kind for time
\* steps from 1 ms to 1 s.
Limbs == 6
LimbBits == 11
MantissaBits == 53
LimbBase == 2 ^ LimbBits
FloatBits == Limbs * LimbBits

\* the limbs f[1], ..., f[n], each computed once
RECURSIVE LimbSeq(_, _)
LimbSeq(f, n) == IF n = 0 THEN <<>> ELSE Append(LimbSeq(f, n - 1), f[n])

FloatZero == LimbSeq([i \in 1..Limbs |-> 0], Limbs)

\* the limb that holds digit i, and the weight of digit i inside it
LimbOf(i) == ((i - 1) \div LimbBits) + 1
WeightIn(i) == 2 ^ (LimbBits - 1 - ((i - 1) % LimbBits))

DigitAt(v, i) == (v[LimbOf(i)] \div WeightIn(i)) % 2

\* the position of the leading 1, FloatBits + 1 for zero
Lead(v) ==
    IF v = FloatZero THEN FloatBits + 1
    ELSE LET j == CHOOSE j \in 1..Limbs :
                     v[j] # 0 /\ \A k \in 1..(j - 1) : v[k] = 0
             h == CHOOSE h \in 0..(LimbBits - 1) :
                     2 ^ h <= v[j] /\ v[j] < 2 ^ (h + 1)
         IN  (j - 1) * LimbBits + (LimbBits - h)

\* v with every digit after digit last cleared
Truncate(v, last) ==
    LimbSeq([j \in 1..Limbs |->
                IF j * LimbBits <= last THEN v[j]
                ELSE IF (j - 1) * LimbBits >= last THEN 0
                ELSE LET low == 2 ^ (j * LimbBits - last)
                     IN  v[j] - (v[j] % low)], Limbs)

\* the carry out of limb j of a + b
RECURSIVE CarryOut(_, _, _)
CarryOut(a, b, j) ==
    IF j > Limbs THEN 0
    ELSE (a[j] + b[j] + CarryOut(a, b, j + 1)) \div LimbBase

\* the exact sum a + b
ExactSum(a, b) ==
    LimbSeq([j \in 1..Limbs |->
                (a[j] + b[j] + CarryOut(a, b, j + 1)) % LimbBase], Limbs)

\* IEEE 754 round-to-nearest, ties to even, to MantissaBits significant
\* digits; inexact says that non-zero digits lie beyond the last limb
RoundNearestEven(v, inexact) ==
    LET last == Lead(v) + MantissaBits - 1
    IN  IF last >= FloatBits THEN v
        ELSE LET kept == Truncate(v, last)
                 ulp == LimbSeq([j \in 1..Limbs |->
                                    IF j = LimbOf(last) THEN WeightIn(last)
                                    ELSE 0], Limbs)
                 rest == inexact \/ Truncate(v, last + 1) # v
                 up == DigitAt(v, last + 1) = 1
                          /\ (rest \/ DigitAt(v, last) = 1)
             IN  IF up THEN ExactSum(kept, ulp) ELSE kept

\* a + b on floats
FloatAdd(a, b) == RoundNearestEven(ExactSum(a, b), FALSE)

\* what remains of n after j limbs of the long division of n by d4
RECURSIVE Remainder(_, _, _)
Remainder(n, d4, j) ==
    IF j = 0 THEN n ELSE (Remainder(n, d4, j - 1) * LimbBase) % d4

\* n / d on floats, for integers 0 < n < 2 * d: the digits of n / d are
\* those of n / (4 * d) after the point
FloatDiv(n, d) ==
    LET q == LimbSeq([j \in 1..Limbs |->
                         (Remainder(n, 4 * d, j - 1) * LimbBase)
                            \div (4 * d)], Limbs)
    IN  RoundNearestEven(q, Remainder(n, 4 * d, Limbs) # 0)

\* a >= b on floats
FloatGe(a, b) ==
    \/ a = b
    \/ \E i \in 1..Limbs :
          /\ a[i] > b[i]
          /\ \A j \in 1..(i - 1) : a[j] = b[j]

VARIABLES
    has_camera,      \* device discovery
    has_sick,
    has_gps,
    timestep,        \* driver.getBasicTimeStep(), ms
    autodrive,
    speed_kph,
    steering_angle,
    manual_steer,
    pid,             \* LaneFollowPID: [old_value, integral, need_reset]
    filter,          \* AngleFilter: [values, first_call]
    gps_coords,      \* last GPS position, centimetres
    gps_speed_kph,   \* last GPS speed, thousandths of km/h
    driver,          \* last commands received by the backend
    step_count,
    broadcast_timer,
    clients,         \* the subscriber set: a list of connections
    clients_lock,    \* "free", or the thread inside a with-block
    ctl_pc,          \* control thread: "loop", "broadcast" or "sending"
    bc,              \* locals of the running _broadcast call
    acceptor,        \* acceptor thread: [pc, conn]
    next_conn,       \* the next connection the listener will hand out
    published,       \* payloads built so far (stands for time.time())
    received,        \* what each connection's peer has been sent
    hist,            \* observation: when each connection was accepted
                     \* and appended, and which writes have failed
    tick,            \* what the last loop iteration did
    now,             \* time.time() of the detection program, tenths of s
    decision,        \* DecisionEngine: [recent_speeds, overspeed_start_ts,
                     \* current_sign_mph, last_event]
    alerter,         \* AlertManager: [last_alert_ts]
    osm,             \* OSMMaxSpeedClient: [store], the TTLCache by key
    map_state,       \* main(): [last_map_lookup, map_speed_mph]
    vehicle,         \* WebotsVehicleState: [speed_mph, connected]
    bridge,          \* WebotsBridge._listen: [pc, packets, wake]
    seen             \* observation: what the detection program did

control_vars == <<has_camera, has_sick, timestep, autodrive, speed_kph,
                  steering_angle, manual_steer, pid, filter, driver,
                  step_count, broadcast_timer, tick>>

gps_vars == <<has_gps, gps_coords, gps_speed_kph>>

telemetry_vars == <<clients, clients_lock, ctl_pc, bc, acceptor, next_conn,
                    published, received, hist>>

app_vars == <<now, decision, alerter, osm, map_state, vehicle, bridge, seen>>

vars == <<control_vars, gps_vars, telemetry_vars, app_vars>>

\* ------------------------------------------------------------ LaneFollowPID
PidInit == [old_value |-> 0, integral |-> 0, need_reset |-> FALSE]

\* reset(): only raises the flag
PidReset(p) == [p EXCEPT !.need_reset = TRUE]

\* faulty variant: the integral cleared but the old value not rebased
PidApplyResetStale(p, angle) ==
    IF p.need_reset
    THEN [p EXCEPT !.integral = 0, !.need_reset = FALSE]
    ELSE p

\* "if self.need_reset: ..." at the head of update
PidApplyReset(p, angle) ==
    IF p.need_reset
    THEN [old_value |-> angle, integral |-> 0, need_reset |-> FALSE]
    ELSE p

\* faulty variant: the integral kept across a sign flip
PidNoAntiWindup(p, angle) == p

\* "if copysign(1, angle) != copysign(1, old_value): integral = 0"
PidAntiWindup(p, angle) ==
    IF CopySign(angle) # CopySign(p.old_value)
    THEN [p EXCEPT !.integral = 0]
    ELSE p

\* faulty variant: the error added whatever the integral
PidAccumulateUnguarded(integral, angle) == integral + angle

\* "if -30 < self.integral < 30: self.integral += angle"
PidAccumulate(integral, angle) ==
    IF -INTEGRAL_LIMIT < integral /\ integral < INTEGRAL_LIMIT
    THEN integral + angle
    ELSE integral

\* faulty variant: the derivative term left out
PidOutputNoDerivative(angle, integral, diff) == KP * angle + KI * integral

\* "return KP * angle + KI * self.integral + KD * diff"
PidOutput(angle, integral, diff) == KP * angle + KI * integral + KD * diff

\* update(angle): the new PID state and the returned correction
PidUpdate(p, angle) ==
    LET p1 == PidApplyReset(p, angle)
        p2 == PidAntiWindup(p1, angle)
        diff == angle - p2.old_value
        int3 == PidAccumulate(p2.integral, angle)
    IN  [pid |-> [old_value |-> angle, integral |-> int3,
                  need_reset |-> p2.need_reset],
         out |-> PidOutput(angle, int3, diff)]

\* ------------------------------------------------------------ AngleFilter
ZeroWindow == [i \in 1..FILTER_SIZE |-> 0]
FilterInit == [values |-> ZeroWindow, first_call |-> TRUE]

\* faulty variant: the window cleared on the first call only
FilterUpdateKeepHistory(f, new_value) ==
    LET vals == IF f.first_call THEN ZeroWindow
                ELSE IF new_value = UNKNOWN THEN f.values
                ELSE Append(Tail(f.values), new_value)
    IN  [filter |-> [values |-> vals, first_call |-> FALSE],
         out |-> IF new_value = UNKNOWN
                 THEN UNKNOWN
                 ELSE Quot(SumSeq(vals), FILTER_SIZE)]

\* update(new_value): the new filter state and the returned value
FilterUpdate(f, new_value) ==
    LET vals == IF f.first_call \/ new_value = UNKNOWN
                THEN ZeroWindow
                ELSE Append(Tail(f.values), new_value)
        f1 == [values |-> vals,
               first_call |-> IF f.first_call \/ new_value = UNKNOWN
                              THEN FALSE ELSE f.first_call]
    IN  [filter |-> f1,
         out |-> IF new_value = UNKNOWN
                 THEN UNKNOWN
                 ELSE Quot(SumSeq(vals), FILTER_SIZE)]

\* ------------------------------------------------------------ actuation
\* One call on the backend or on the PID, as the loop iteration made it.
\*   steer      : arg = requested target, prev = stored angle before the
\*                call, val = stored angle after it, out = angle forwarded
\*   brake      : out = intensity commanded
\*   speed      : arg = requested speed, out = speed forwarded
\*   pid_update : arg = error, prev = integral before, val = integral
\*                after, out = correction returned
\*   pid_reset  : -
Ev(op, arg, prev, val, out) ==
    [op |-> op, arg |-> arg, prev |-> prev, val |-> val, out |-> out]

\* faulty variant: the cap left out
SpeedUncapped(kph) == kph

\* "kph = min(kph, 250.0)"
SpeedCap(kph) == Min(kph, SPEED_MAX)

\* _set_speed(kph)
SetSpeed(c, kph) ==
    LET v == SpeedCap(kph)
    IN  [c EXCEPT !.speed_kph = v,
                  !.driver.speed = v,
                  !.log = Append(@, Ev("speed", kph, c.speed_kph, v, v))]

\* faulty variant: the target taken as it comes
RateLimitOff(cur, angle) == angle

\* the rate limit of _set_steering_angle: at most 0.1 rad from the stored angle
RateLimit(cur, angle) ==
    LET delta == angle - cur
    IN  IF delta > RATE_LIMIT THEN cur + RATE_LIMIT
        ELSE IF delta < -RATE_LIMIT THEN cur - RATE_LIMIT
        ELSE angle

\* faulty variant: the authority clamp left out
ForwardedUnclamped(angle) == angle

\* "max(-0.5, min(0.5, angle))": the angle handed to driver.setSteeringAngle
Forwarded(angle) == Max(-AUTHORITY, Min(AUTHORITY, angle))

\* "self.steering_angle = angle": the angle committed to the state
Committed(angle) == angle

\* _set_steering_angle(angle)
SetSteeringAngle(c, angle) ==
    LET limited == RateLimit(c.steering_angle, angle)
        sent == Forwarded(limited)
        kept == Committed(limited)
    IN  [c EXCEPT !.steering_angle = kept,
                  !.driver.steering = sent,
                  !.log = Append(@, Ev("steer", angle, c.steering_angle,
                                       kept, sent))]

\* driver.setBrakeIntensity(v)
SetBrake(c, v) ==
    [c EXCEPT !.driver.brake = v,
              !.log = Append(@, Ev("brake", v, c.driver.brake, v, v))]

\* ------------------------------------------------------------ keyboard
Keys == {"none", "UP", "DOWN", "LEFT", "RIGHT", "A"}

\* faulty variant: the mode left alone when the step is out of range
ChangeManualSteerLate(c, inc) ==
    LET new_steer == c.manual_steer + inc
    IN  IF -TRIM_MAX <= new_steer /\ new_steer <= TRIM_MAX
        THEN SetSteeringAngle([c EXCEPT !.autodrive = FALSE,
                                        !.manual_steer = new_steer],
                              new_steer * TRIM_STEP)
        ELSE c

\* faulty variant: the range of the counter not tested
ChangeManualSteerUnbounded(c, inc) ==
    SetSteeringAngle([c EXCEPT !.autodrive = FALSE,
                               !.manual_steer = c.manual_steer + inc],
                     (c.manual_steer + inc) * TRIM_STEP)

\* _change_manual_steer(inc)
ChangeManualSteer(c, inc) ==
    LET c1 == [c EXCEPT !.autodrive = FALSE]
        new_steer == c.manual_steer + inc
    IN  IF -TRIM_MAX <= new_steer /\ new_steer <= TRIM_MAX
        THEN SetSteeringAngle([c1 EXCEPT !.manual_steer = new_steer],
                              new_steer * TRIM_STEP)
        ELSE c1

\* faulty variant: auto-drive switched on without looking for a camera
HandleKeyboardAnyAuto(c, key) ==
    CASE key = "UP"    -> SetSpeed(c, c.speed_kph + SPEED_INC)
      [] key = "DOWN"  -> SetSpeed(c, Max(0, c.speed_kph - SPEED_INC))
      [] key = "RIGHT" -> ChangeManualSteer(c, 1)
      [] key = "LEFT"  -> ChangeManualSteer(c, -1)
      [] key = "A"     -> [c EXCEPT !.autodrive = TRUE]
      [] OTHER         -> c

\* faulty variant: auto-drive entered with a fresh PID and the trim cleared
HandleKeyboardFreshAuto(c, key) ==
    CASE key = "none"  -> c
      [] key = "UP"    -> SetSpeed(c, c.speed_kph + SPEED_INC)
      [] key = "DOWN"  -> SetSpeed(c, Max(0, c.speed_kph - SPEED_INC))
      [] key = "RIGHT" -> ChangeManualSteer(c, 1)
      [] key = "LEFT"  -> ChangeManualSteer(c, -1)
      [] key = "A"     -> IF has_camera
                          THEN [c EXCEPT !.autodrive = TRUE, !.pid = PidInit,
                                         !.manual_steer = 0]
                          ELSE c
      [] OTHER         -> c

\* _handle_keyboard(), key = keyboard.getKey()
HandleKeyboard(c, key) ==
    CASE key = "none"  -> c
      [] key = "UP"    -> SetSpeed(c, c.speed_kph + SPEED_INC)
      [] key = "DOWN"  -> SetSpeed(c, Max(0, c.speed_kph - SPEED_INC))
      [] key = "RIGHT" -> ChangeManualSteer(c, 1)
      [] key = "LEFT"  -> ChangeManualSteer(c, -1)
      [] key = "A"     -> IF has_camera THEN [c EXCEPT !.autodrive = TRUE]
                          ELSE c
      [] OTHER         -> c

\* ------------------------------------------------------------ auto-drive
\* faulty variant: the offset taken with the same sign on both sides
AvoidSteerSameOffset(cur, obs_angle, obs_dist) ==
    IF obs_angle > -CONE
    THEN cur + Quot((obs_angle + OFFSET) * 10000, obs_dist)
    ELSE cur

\* the avoidance steer of the obstacle branch; (b -+ 0.25) / d with b in
\* millirad and d in tenths is 10000 * (b -+ 250) / d microrad
AvoidSteer(cur, obs_angle, obs_dist) ==
    IF 0 < obs_angle /\ obs_angle < CONE
    THEN cur + Quot((obs_angle - OFFSET) * 10000, obs_dist)
    ELSE IF obs_angle > -CONE
    THEN cur + Quot((obs_angle + OFFSET) * 10000, obs_dist)
    ELSE cur

\* faulty variant: the line correction ignored whenever an obstacle is seen
CombineAvoidOnly(avoid_steer, line_steer) == avoid_steer

\* faulty variant: the larger magnitude taken whatever the signs
CombineLargest(avoid_steer, line_steer) ==
    IF Abs(line_steer) > Abs(avoid_steer) THEN line_steer ELSE avoid_steer

\* "Take the more extreme steer"
Combine(avoid_steer, line_steer) ==
    IF avoid_steer > 0 /\ line_steer > 0 THEN Max(avoid_steer, line_steer)
    ELSE IF avoid_steer < 0 /\ line_steer < 0 THEN Min(avoid_steer, line_steer)
    ELSE avoid_steer

\* self.pid.update(yellow_angle) inside the controller
CallPidUpdate(c, yellow_angle) ==
    LET r == PidUpdate(c.pid, yellow_angle)
    IN  [c EXCEPT !.pid = r.pid,
                  !.line_steer = r.out,
                  !.log = Append(@, Ev("pid_update", yellow_angle,
                                       c.pid.integral, r.pid.integral, r.out))]

\* self.pid.reset() inside the controller
CallPidReset(c) ==
    [c EXCEPT !.pid = PidReset(c.pid),
              !.log = Append(@, Ev("pid_reset", 0, 0, 0, 0))]

\* the condition of the obstacle branch
ObstacleSeen(obs_angle) == has_sick /\ obs_angle # UNKNOWN

\* "(obs_angle -+ 0.25) / obs_dist" raises ZeroDivisionError when the
\* distance is 0.0; both branches that divide lie at bearings above -0.4
DivisionRaises(obs_angle, obs_dist) == obs_dist = 0 /\ obs_angle > -CONE

\* faulty variant: the PID left alone when the obstacle branch has no lane
ObstacleBranchNoReset(c, yellow_angle, obs_angle, obs_dist) ==
    LET c1 == SetBrake(c, 0)
        avoid == AvoidSteer(c.steering_angle, obs_angle, obs_dist)
        c2 == [c1 EXCEPT !.branch = "obstacle", !.avoid_steer = avoid]
        c3 == IF yellow_angle # UNKNOWN
              THEN CallPidUpdate(c2, yellow_angle)
              ELSE c2
        steer == IF yellow_angle # UNKNOWN
                 THEN Combine(avoid, c3.line_steer)
                 ELSE avoid
    IN  IF DivisionRaises(obs_angle, obs_dist)
        THEN [c1 EXCEPT !.branch = "obstacle", !.raised = TRUE]
        ELSE SetSteeringAngle(c3, steer)

\* the obstacle branch of _run_autodrive; when the division raises, the
\* brake call has been made and nothing after it
ObstacleBranch(c, yellow_angle, obs_angle, obs_dist) ==
    LET c1 == SetBrake(c, 0)
        avoid == AvoidSteer(c.steering_angle, obs_angle, obs_dist)
        c2 == [c1 EXCEPT !.branch = "obstacle", !.avoid_steer = avoid]
        c3 == IF yellow_angle # UNKNOWN
              THEN CallPidUpdate(c2, yellow_angle)
              ELSE CallPidReset(c2)
        steer == IF yellow_angle # UNKNOWN
                 THEN Combine(avoid, c3.line_steer)
                 ELSE avoid
    IN  IF DivisionRaises(obs_angle, obs_dist)
        THEN [c1 EXCEPT !.branch = "obstacle", !.raised = TRUE]
        ELSE SetSteeringAngle(c3, steer)

\* faulty variant: the brake left as it was when following the line
LaneBranchKeepBrake(c, yellow_angle) ==
    LET c2 == CallPidUpdate([c EXCEPT !.branch = "lane"], yellow_angle)
    IN  SetSteeringAngle(c2, c2.line_steer)

\* the line-following branch of _run_autodrive
LaneBranch(c, yellow_angle) ==
    LET c1 == SetBrake([c EXCEPT !.branch = "lane"], 0)
        c2 == CallPidUpdate(c1, yellow_angle)
    IN  SetSteeringAngle(c2, c2.line_steer)

\* faulty variant: the wheel centred when the line is lost
LostBranchCentre(c) ==
    CallPidReset(SetBrake(SetSteeringAngle([c EXCEPT !.branch = "lost"], 0),
                          PARTIAL_BRAKE))

\* the lost-line branch of _run_autodrive
LostBranch(c) ==
    CallPidReset(SetBrake([c EXCEPT !.branch = "lost"], PARTIAL_BRAKE))

\* _run_autodrive(yellow_angle, obs_angle, obs_dist)
RunAutodrive(c, yellow_angle, obs_angle, obs_dist) ==
    IF ObstacleSeen(obs_angle)
    THEN ObstacleBranch(c, yellow_angle, obs_angle, obs_dist)
    ELSE IF yellow_angle # UNKNOWN
    THEN LaneBranch(c, yellow_angle)
    ELSE LostBranch(c)

\* ------------------------------------------------------------ GPS
\* A GPS reading: getValues() in millimetres, getSpeed() in cm/s.
GpsReadings == {[values |-> <<1234, 0, -5678>>, speed |-> 1234]}

\* "self.gps_speed_kph = self.gps.getSpeed() * 3.6": cm/s to thousandths of
\* km/h.
GpsKph(speed) == speed * 36

\* _update_gps
UpdateGps(g) == [coords |-> g.values, speed_kph |-> GpsKph(g.speed)]

\* ------------------------------------------------------------ telemetry
\* round(n / d) to the nearest integer; the readings drawn produce no ties
RoundDiv(n, d) ==
    IF n >= 0 THEN (2 * n + d) \div (2 * d) ELSE -((2 * (-n) + d) \div (2 * d))

Range(s) == {s[i] : i \in DOMAIN s}

\* The frame built by _broadcast: mm/s, tenths of mph, tenths of km/h,
\* centimetres; ts is the publication number.
Payload(coords, kph, ts) ==
    [speed_mps |-> RoundDiv(kph * 10, 36),
     speed_mph |-> RoundDiv(kph * 2237, 360000),
     speed_kph |-> RoundDiv(kph, 100),
     pos_x |-> IF Len(coords) > 0 THEN RoundDiv(coords[1], 10) ELSE 0,
     pos_z |-> IF Len(coords) > 2 THEN RoundDiv(coords[3], 10) ELSE 0,
     ts |-> ts]

NoBroadcast == [payload |-> Payload(<<>>, 0, 0), idx |-> 1, dead |-> <<>>,
                start |-> <<>>]

\* faulty variant: a with-block that enters whatever the lock's state
CanAcquireAlways(lock) == TRUE

\* "with self.clients_lock:" enters only when no thread holds the lock
CanAcquire(lock) == lock = "free"

\* faulty variant: the failed connection is removed on the spot
MarkDeadRemoveNow(cl, dead, conn) ==
    [clients |-> SelectSeq(cl, LAMBDA c : c # conn), dead |-> dead]

\* "except Exception: dead.append(conn)": the set is left as it is
MarkDead(cl, dead, conn) == [clients |-> cl, dead |-> Append(dead, conn)]

\* "for d in dead: self.clients.remove(d)"
RemoveDead(cl, dead) == SelectSeq(cl, LAMBDA c : c \notin Range(dead))

\* _broadcast up to the entry of its with-block: the payload is built and
\* the lock taken.
BroadcastBegin ==
    /\ ctl_pc = "broadcast"
    /\ CanAcquire(clients_lock)
    /\ clients_lock' = "control"
    /\ published' = published + 1
    /\ bc' = [payload |-> Payload(gps_coords, gps_speed_kph, published + 1),
              idx |-> 1, dead |-> <<>>, start |-> clients]
    /\ ctl_pc' = "sending"
    /\ UNCHANGED app_vars
    /\ UNCHANGED <<control_vars, gps_vars, clients, acceptor, next_conn,
                   received, hist>>

\* One turn of "for conn in self.clients": sendall either delivers the
\* payload or raises.
BroadcastSend ==
    /\ ctl_pc = "sending"
    /\ bc.idx <= Len(clients)
    /\ LET conn == clients[bc.idx]
       IN  \E ok \in BOOLEAN :
              IF ok
              THEN /\ received' = [received EXCEPT
                                     ![conn] = Append(@, bc.payload)]
                   /\ bc' = [bc EXCEPT !.idx = @ + 1]
                   /\ UNCHANGED <<clients, hist>>
              ELSE LET r == MarkDead(clients, bc.dead, conn)
                   IN  /\ clients' = r.clients
                       /\ bc' = [bc EXCEPT !.idx = @ + 1, !.dead = r.dead]
                       /\ hist' = [hist EXCEPT !.failed = @ \cup {conn}]
                       /\ UNCHANGED received
    /\ UNCHANGED app_vars
    /\ UNCHANGED <<control_vars, gps_vars, clients_lock, ctl_pc, acceptor,
                   next_conn, published>>

\* One turn of "for conn in self.clients" in which sendall does not return:
\* the connection is a blocking socket (accept() hands out sockets without a
\* timeout) and its peer has stopped reading.
BroadcastStall ==
    /\ ctl_pc = "sending"
    /\ bc.idx <= Len(clients)
    /\ ctl_pc' = "waiting"
    /\ UNCHANGED app_vars
    /\ UNCHANGED <<control_vars, gps_vars, clients, clients_lock, bc,
                   acceptor, next_conn, published, received, hist>>

\* The end of the pass: the dead connections are removed and the
\* with-block left.
BroadcastEnd ==
    /\ ctl_pc = "sending"
    /\ bc.idx > Len(clients)
    /\ clients' = RemoveDead(clients, bc.dead)
    /\ clients_lock' = "free"
    /\ bc' = NoBroadcast
    /\ ctl_pc' = "loop"
    /\ UNCHANGED app_vars
    /\ UNCHANGED <<control_vars, gps_vars, acceptor, next_conn, published,
                   received, hist>>

\* what the observation records when the acceptor thread ends
Stopped(h) == [h EXCEPT !.last_acceptor = "stopped",
                        !.stopped_at = published,
                        !.stopped_step = step_count]

\* serve(): the listener is created, bound and put to listen with a
\* one-second timeout.
AcceptorBind ==
    /\ acceptor.pc = "bind"
    /\ acceptor' = [acceptor EXCEPT !.pc = "accept"]
    /\ hist' = [hist EXCEPT !.last_acceptor = "bind"]
    /\ UNCHANGED app_vars
    /\ UNCHANGED <<control_vars, gps_vars, clients, clients_lock, ctl_pc, bc,
                   next_conn, published, received>>

\* serve(): "srv.bind((HOST, PORT))" raises; nothing in serve catches it
\* and the thread ends.
AcceptorBindFail ==
    /\ acceptor.pc = "bind"
    /\ acceptor' = [acceptor EXCEPT !.pc = "stopped"]
    /\ hist' = Stopped(hist)
    /\ UNCHANGED app_vars
    /\ UNCHANGED <<control_vars, gps_vars, clients, clients_lock, ctl_pc, bc,
                   next_conn, published, received>>

\* faulty variant: a timeout treated like any other exception
AcceptorTimeoutStops ==
    /\ acceptor.pc = "accept"
    /\ acceptor' = [acceptor EXCEPT !.pc = "stopped"]
    /\ hist' = [hist EXCEPT !.last_acceptor = "timeout"]
    /\ UNCHANGED app_vars
    /\ UNCHANGED <<control_vars, gps_vars, clients, clients_lock, ctl_pc, bc,
                   next_conn, published, received>>

\* serve(): accept() times out; "except socket.timeout: pass" and the loop
\* goes round.
AcceptorTimeout ==
    /\ acceptor.pc = "accept"
    /\ acceptor' = [acceptor EXCEPT !.pc = "accept"]
    /\ hist' = [hist EXCEPT !.last_acceptor = "timeout"]
    /\ UNCHANGED app_vars
    /\ UNCHANGED <<control_vars, gps_vars, clients, clients_lock, ctl_pc, bc,
                   next_conn, published, received>>

\* serve(): accept() raises something else; "except Exception: break".
AcceptorError ==
    /\ acceptor.pc = "accept"
    /\ acceptor' = [acceptor EXCEPT !.pc = "stopped"]
    /\ hist' = Stopped(hist)
    /\ UNCHANGED app_vars
    /\ UNCHANGED <<control_vars, gps_vars, clients, clients_lock, ctl_pc, bc,
                   next_conn, published, received>>

\* serve(): "conn, addr = srv.accept()" returns a new connection.
AcceptorAccept ==
    /\ acceptor.pc = "accept"
    /\ next_conn <= MaxClients
    /\ acceptor' = [pc |-> "lock", conn |-> next_conn]
    /\ next_conn' = next_conn + 1
    /\ received' = received @@ (next_conn :> <<>>)
    /\ hist' = [hist EXCEPT !.accepted_at = @ @@ (next_conn :> published),
                            !.last_acceptor = "accept"]
    /\ UNCHANGED app_vars
    /\ UNCHANGED <<control_vars, gps_vars, clients, clients_lock, ctl_pc, bc,
                   published>>

\* serve(): entry of "with self.clients_lock:".
AcceptorLock ==
    /\ acceptor.pc = "lock"
    /\ CanAcquire(clients_lock)
    /\ clients_lock' = "acceptor"
    /\ acceptor' = [acceptor EXCEPT !.pc = "append"]
    /\ hist' = [hist EXCEPT !.last_acceptor = "lock"]
    /\ UNCHANGED app_vars
    /\ UNCHANGED <<control_vars, gps_vars, clients, ctl_pc, bc, next_conn,
                   published, received>>

\* serve(): "self.clients.append(conn)" and the exit of the with-block.
AcceptorAppend ==
    /\ acceptor.pc = "append"
    /\ clients' = Append(clients, acceptor.conn)
    /\ clients_lock' = "free"
    /\ acceptor' = [pc |-> "accept", conn |-> 0]
    /\ hist' = [hist EXCEPT
                  !.joined_at = @ @@ (acceptor.conn :> published),
                  !.last_acceptor = "append"]
    /\ UNCHANGED app_vars
    /\ UNCHANGED <<control_vars, gps_vars, ctl_pc, bc, next_conn, published,
                   received>>

\* ------------------------------------------------------------ detection program
\* The sign-detection program (main.py, decision.py, alert.py, map_osm.py,
\* main_webots.py). Times in tenths of a second, sign and map speeds in mph,
\* GPS speed in tenths of m/s, converted speeds in units of 10^-7 mph.
\* "None"
None == -1
\* Config.confirm_frames = 3
CONFIRM_FRAMES == 3
\* Config.temporary_gap_mph = 10.0
TEMPORARY_GAP_MPH == 10
\* Config.overspeed_tolerance_mph = 2.0
OVERSPEED_TOLERANCE_MPH == 2
\* Config.overspeed_hold_seconds = 1.0
OVERSPEED_HOLD == 10
\* Config.alert_cooldown_seconds = 5.0
ALERT_COOLDOWN == 50
\* Config.gps_min_moving_mps = 0.5
GPS_MIN_MOVING == 5
\* Config.map_cache_seconds = 60
MAP_CACHE_SECONDS == 600
\* mps_to_mph: 2.236936 mph per m/s, here 10^-7 mph per tenth of m/s
MPH_PER_MPS == 2236936
\* one mph in the unit of converted speeds
MPH == 10000000

\* time.time() when the program starts: long after the epoch, so that the
\* timestamps 0.0 of the constructors lie further back than any interval
StartTime == 2 * MAP_CACHE_SECONDS

\* ---- decision.py
\* "return None": no event
NoEvent == [sign_confirmed_mph |-> None, map_mph |-> None, gps_mph |-> None,
            is_temporary |-> FALSE, is_overspeed |-> FALSE,
            map_known |-> FALSE, ts |-> None]

\* DecisionEngine.__init__
DecisionInit == [recent_speeds |-> <<>>, overspeed_start_ts |-> None,
                 current_sign_mph |-> None, last_event |-> NoEvent]

\* mps_to_mph
MpsToMph(v_mps) == v_mps * MPH_PER_MPS

\* deque(maxlen = confirm_frames).append
DequeAppend(q, v) ==
    IF Len(q) < CONFIRM_FRAMES THEN Append(q, v) ELSE Append(Tail(q), v)

\* faulty variant: the last detection alone confirms
IsConfirmedByLast(q) == Len(q) >= 1

\* "len(self._recent_speeds) >= confirm_frames and len(set(...)) == 1"
IsConfirmed(q) ==
    /\ Len(q) >= CONFIRM_FRAMES
    /\ \A i \in DOMAIN q : q[i] = q[Len(q)]

\* "confirmed <= map_speed_mph - temporary_gap_mph", with a known map speed
IsTemporary(confirmed, map_speed_mph) ==
    /\ map_speed_mph # None
    /\ confirmed <= map_speed_mph - TEMPORARY_GAP_MPH

\* "gps_mph >= confirmed + overspeed_tolerance_mph"
OverLimit(gps_mph, confirmed) ==
    gps_mph >= (confirmed + OVERSPEED_TOLERANCE_MPH) * MPH

\* the overspeed logic of update: the timer after it, and is_overspeed
Overspeed(start_ts, moving, gps_mph, confirmed, t) ==
    IF moving /\ gps_mph # None
    THEN IF OverLimit(gps_mph, confirmed)
         THEN IF start_ts = None
              THEN [start_ts |-> t, is_overspeed |-> FALSE]
              ELSE [start_ts |-> start_ts,
                    is_overspeed |-> t - start_ts >= OVERSPEED_HOLD]
         ELSE [start_ts |-> None, is_overspeed |-> FALSE]
    ELSE [start_ts |-> start_ts, is_overspeed |-> FALSE]

\* DecisionEngine.update at time t: the engine after it and what it returns
DecisionUpdate(d, top_detected_mph, gps_speed_mps, map_speed_mph, t) ==
    LET gps_mph == IF gps_speed_mps # None THEN MpsToMph(gps_speed_mps)
                   ELSE None
        moving == gps_speed_mps # None /\ gps_speed_mps >= GPS_MIN_MOVING
        recent == DequeAppend(d.recent_speeds, top_detected_mph)
        confirmed == recent[Len(recent)]
        o == Overspeed(d.overspeed_start_ts, moving, gps_mph, confirmed, t)
        event == [sign_confirmed_mph |-> confirmed,
                  map_mph |-> map_speed_mph,
                  gps_mph |-> gps_mph,
                  is_temporary |-> IsTemporary(confirmed, map_speed_mph),
                  is_overspeed |-> o.is_overspeed,
                  map_known |-> map_speed_mph # None,
                  ts |-> t]
    IN  IF top_detected_mph = None
        THEN [engine |-> [d EXCEPT !.recent_speeds = <<>>,
                                   !.current_sign_mph = None,
                                   !.overspeed_start_ts = None],
              event |-> NoEvent]
        ELSE IF ~IsConfirmed(recent)
        THEN [engine |-> [d EXCEPT !.recent_speeds = recent],
              event |-> NoEvent]
        ELSE [engine |-> [recent_speeds |-> recent,
                          overspeed_start_ts |-> o.start_ts,
                          current_sign_mph |-> confirmed,
                          last_event |-> event],
              event |-> event]

\* ---- alert.py
\* AlertManager.can_alert at time t
CanAlert(a, t) == t - a.last_alert_ts >= ALERT_COOLDOWN

\* AlertManager.alert at time t: the manager after it and what it returns
Alert(a, t) ==
    IF ~CanAlert(a, t) THEN [alerter |-> a, accepted |-> FALSE]
    ELSE [alerter |-> [a EXCEPT !.last_alert_ts = t], accepted |-> TRUE]

\* ---- utils.py, map_osm.py
\* the outcome of a request that raised; None is a reply without a usable
\* maxspeed tag, any other outcome the speed limit parsed from the reply
NET_ERROR == -2

\* TTLCache.get at time t: the store after it and the value returned
CacheGet(store, key, t) ==
    IF key \notin DOMAIN store THEN [store |-> store, value |-> None]
    ELSE IF t - store[key].ts > MAP_CACHE_SECONDS
    THEN [store |-> [k \in DOMAIN store \ {key} |-> store[k]],
          value |-> None]
    ELSE [store |-> store, value |-> store[key].value]

\* TTLCache.set at time t
CacheSet(store, key, value, t) ==
    [k \in DOMAIN store \cup {key} |->
        IF k = key THEN [value |-> value, ts |-> t] ELSE store[k]]

\* "if cached is not None: return cached"
IsHit(got, store, key) == got.value # None

\* OSMMaxSpeedClient.get_maxspeed_mph at time t for the rounded coordinates
\* key, net being the outcome of the request if one is made: the client
\* after it, the value returned and whether a request was made
GetMaxspeedMph(o, key, net, t) ==
    LET got == CacheGet(o.store, key, t)
        result == IF net = NET_ERROR THEN None ELSE net
    IN  IF IsHit(got, got.store, key)
        THEN [osm |-> [o EXCEPT !.store = got.store],
              value |-> got.value, requested |-> FALSE]
        ELSE [osm |-> [o EXCEPT !.store = CacheSet(got.store, key, result, t)],
              value |-> result, requested |-> TRUE]

\* ---- what the detection program did last (observation)
\*   call      : the operation that ran last
\*   calls     : how many operations have run
\*   top, gps, map_mph : the arguments of the last DecisionEngine.update
\*   event     : what it returned
\*   prev      : the engine before it
\*   streak    : how many identical detections in a row the frames have
\*               shown, up to the last frame
\*   cleared_at: when a frame without a detection was last seen
\*   run_start, run_sign : when the unbroken run of updates that were over
\*               the limit of one confirmed sign began, and that sign
\*   accepted  : the alerts of the last frame that were accepted, in order
\*   alert_ts  : when an alert was last accepted
\*   alert_gap : the time between the last two accepted alerts
\*   over_since: when the unbroken run of frames whose event had
\*               is_overspeed began
\*   over_alerted : whether an overspeed alert was accepted during that run
\*   requested : whether the last lookup made a request
\*   value     : what the last lookup returned
\*   key, prev_store : the key of the last lookup and the cache before it
NoSeen == [call |-> "none", calls |-> 0, top |-> None, gps |-> None,
           map_mph |-> None, event |-> NoEvent, prev |-> DecisionInit,
           streak |-> 0, cleared_at |-> None, run_start |-> None,
           run_sign |-> None, accepted |-> <<>>, alert_ts |-> None,
           alert_gap |-> None, over_since |-> None, over_alerted |-> FALSE,
           requested |-> FALSE, value |-> None, key |-> 0,
           prev_store |-> <<>>]

\* the observation after an update with these arguments at time t
SeenUpdate(top, gps, map_mph, event, t) ==
    LET streak == IF top = None THEN 0
                  ELSE IF top = seen.top THEN seen.streak + 1
                  ELSE 1
        over == /\ top # None /\ streak >= CONFIRM_FRAMES
                /\ gps # None /\ gps >= GPS_MIN_MOVING
                /\ gps * MPH_PER_MPS >= (top + OVERSPEED_TOLERANCE_MPH) * MPH
        goes_on == seen.run_start # None /\ seen.run_sign = top
    IN  [seen EXCEPT !.call = "update", !.calls = @ + 1,
                     !.top = top, !.gps = gps, !.map_mph = map_mph,
                     !.event = event, !.prev = decision,
                     !.streak = streak,
                     !.cleared_at = IF top = None THEN t ELSE @,
                     !.run_start = IF ~over THEN None
                                   ELSE IF goes_on THEN @ ELSE t,
                     !.run_sign = IF over THEN top ELSE None]

\* the observation after the alerts of a frame at time t
SeenAlerts(s, event, temp_accepted, over_accepted, t) ==
    LET kinds == (IF temp_accepted THEN <<"temporary">> ELSE <<>>)
                    \o (IF over_accepted THEN <<"overspeed">> ELSE <<>>)
    IN  [s EXCEPT !.call = "frame",
                  !.accepted = kinds,
                  !.alert_ts = IF kinds # <<>> THEN t ELSE @,
                  !.alert_gap = IF Len(kinds) = 2 THEN 0
                                ELSE IF kinds # <<>> /\ s.alert_ts # None
                                THEN t - s.alert_ts
                                ELSE @,
                  !.over_since = IF ~event.is_overspeed THEN None
                                 ELSE IF @ # None THEN @ ELSE t,
                  !.over_alerted = /\ event.is_overspeed
                                   /\ \/ over_accepted
                                      \/ s.over_since # None /\ @]

\* ---- main.py
\* the rounded coordinates of the mock GPS position, as a cache key
MockKey == 1

\* time.sleep(0.1) after a failed camera read
CAMERA_RETRY == 1

\* One iteration of the loop of main(), without --mock_map: ok says whether
\* cam.read() gave a frame, top is the speed of the best detection, gps the
\* speed of the GPS fix (None without a fix), net the outcome of the map
\* request if one is made. The clock is read once per iteration.
Frame(ok, top, gps, net) ==
    IF ~ok
    THEN /\ now' = now + CAMERA_RETRY
         /\ seen' = [seen EXCEPT !.call = "no_frame", !.calls = @ + 1]
         /\ UNCHANGED <<control_vars, gps_vars, telemetry_vars, decision,
                        alerter, osm, map_state, vehicle, bridge>>
    ELSE \E t \in {now + FramePeriod} :
         \E looks \in {gps # None /\ t - map_state.last_map_lookup
                                        >= MAP_CACHE_SECONDS} :
         \E got \in {GetMaxspeedMph(osm, MockKey, net, t)} :
         \E ms \in {IF looks THEN [last_map_lookup |-> t,
                                   map_speed_mph |-> got.value]
                     ELSE map_state} :
         \E r \in {DecisionUpdate(decision, top, gps, ms.map_speed_mph, t)} :
         \E a1 \in {IF r.event # NoEvent /\ r.event.is_temporary
                     THEN Alert(alerter, t)
                     ELSE [alerter |-> alerter, accepted |-> FALSE]} :
         \E a2 \in {IF r.event # NoEvent /\ r.event.is_overspeed
                     THEN Alert(a1.alerter, t)
                     ELSE [alerter |-> a1.alerter, accepted |-> FALSE]} :
            /\ now' = t
            /\ osm' = IF looks THEN got.osm ELSE osm
            /\ map_state' = ms
            /\ decision' = r.engine
            /\ alerter' = a2.alerter
            /\ seen' = SeenAlerts(
                          [SeenUpdate(top, gps, ms.map_speed_mph, r.event, t)
                             EXCEPT !.requested = looks /\ got.requested,
                                    !.value = IF looks THEN got.value ELSE @],
                          r.event, a1.accepted, a2.accepted, t)
            /\ UNCHANGED <<control_vars, gps_vars, telemetry_vars, vehicle,
                           bridge>>

\* ------------------------------------------------------------ Webots bridge
\* main_webots.py. Speeds in mph, time in tenths of a second.
FALLBACK_SPEED_MPH == 30
RETRY_INTERVAL == 20
RECV_TIMEOUT == 20

\* WebotsVehicleState.__init__
VehicleInit == [speed_mph |-> FALLBACK_SPEED_MPH, connected |-> FALSE]

\* WebotsVehicleState.update_from_webots
UpdateFromWebots(v, speed_mph) == [speed_mph |-> speed_mph, connected |-> TRUE]

\* WebotsBridge._listen. pc is the position of the listener thread:
\* "connect" before sock.connect, "recv" in the inner loop with the socket
\* open, "sleep" in time.sleep(retry_interval). packets counts the packets
\* the open connection has delivered.
BridgeInit == [pc |-> "connect", packets |-> 0, wake |-> None]

BridgeStepped == [seen EXCEPT !.call = "bridge", !.calls = @ + 1]

\* the except branches: connected = False, then time.sleep(retry_interval)
BridgeFail ==
    /\ vehicle' = [vehicle EXCEPT !.connected = FALSE]
    /\ bridge' = [pc |-> "sleep", packets |-> 0,
                  wake |-> now + RETRY_INTERVAL]

BridgeRest == UNCHANGED <<control_vars, gps_vars, telemetry_vars, decision,
                          alerter, osm, map_state>>

\* sock.connect succeeds
BridgeConnected ==
    /\ bridge.pc = "connect"
    /\ bridge' = [pc |-> "recv", packets |-> 0, wake |-> None]
    /\ seen' = BridgeStepped
    /\ UNCHANGED <<now, vehicle>>
    /\ BridgeRest

\* sock.connect raises ConnectionRefusedError
BridgeRefused ==
    /\ bridge.pc = "connect"
    /\ BridgeFail
    /\ seen' = BridgeStepped
    /\ UNCHANGED now
    /\ BridgeRest

\* time.sleep(retry_interval) returns; the outer loop tries again
BridgeWake ==
    /\ bridge.pc = "sleep"
    /\ now' = bridge.wake
    /\ bridge' = [pc |-> "connect", packets |-> 0, wake |-> None]
    /\ seen' = BridgeStepped
    /\ UNCHANGED vehicle
    /\ BridgeRest

\* recv returns one line of JSON
BridgePacket(speed_mph) ==
    /\ bridge.pc = "recv"
    /\ vehicle' = UpdateFromWebots(vehicle, speed_mph)
    /\ bridge' = [bridge EXCEPT !.packets = @ + 1]
    /\ seen' = BridgeStepped
    /\ UNCHANGED now
    /\ BridgeRest

\* recv raises socket.timeout, which the inner loop swallows
BridgeTimeout ==
    /\ bridge.pc = "recv"
    /\ now' = now + RECV_TIMEOUT
    /\ seen' = BridgeStepped
    /\ UNCHANGED <<vehicle, bridge>>
    /\ BridgeRest

\* recv returns nothing (the controller closed the connection): break,
\* sock.close(), and the outer loop connects again
BridgeClosed ==
    /\ bridge.pc = "recv"
    /\ bridge' = [pc |-> "connect", packets |-> 0, wake |-> None]
    /\ seen' = BridgeStepped
    /\ UNCHANGED <<now, vehicle>>
    /\ BridgeRest

\* recv raises another OSError, or a line is not JSON
BridgeError ==
    /\ bridge.pc = "recv"
    /\ BridgeFail
    /\ seen' = BridgeStepped
    /\ UNCHANGED now
    /\ BridgeRest

\* ---- the objects of the detection program after construction
AppInit ==
    /\ now = StartTime
    /\ decision = DecisionInit
    /\ alerter = [last_alert_ts |-> 0]
    /\ osm = [store |-> <<>>]
    /\ map_state = [last_map_lookup |-> 0, map_speed_mph |-> None]
    /\ vehicle = VehicleInit
    /\ bridge = BridgeInit
    /\ seen = NoSeen

\* ------------------------------------------------------------ main loop
\* "SENSOR_EVERY_N = max(1, int(50 / self.timestep))"
SensorEveryN == Max(1, SENSOR_PERIOD \div timestep)

\* "BROADCAST_INTERVAL = 0.1": the float nearest to 0.1
BroadcastInterval == FloatDiv(BROADCAST_INTERVAL, 1000)

\* "self.timestep / 1000.0"
StepSeconds == FloatDiv(timestep, 1000)

NoObstacle == <<UNKNOWN, 0>>

\* faulty variant: arbitration in every mode
ArbitratesAnyMode(c, sensed) == sensed /\ has_camera

\* "if self.autodrive and self.has_camera", inside the sensor tick
Arbitrates(c, sensed) == sensed /\ c.autodrive /\ has_camera

\* The readings the filter holds as history after update(new_value): none
\* after a call that cleared the window, else the last FILTER_SIZE ones.
Pushed(f, before, new_value) ==
    IF f.first_call \/ new_value = UNKNOWN THEN <<>>
    ELSE LET all == Append(before, new_value)
         IN  IF Len(all) > FILTER_SIZE THEN Tail(all) ELSE all

NoTick == [key |-> "none", sensed |-> FALSE, auto |-> FALSE,
           yellow |-> UNKNOWN, obs_angle |-> UNKNOWN, obs_dist |-> 0,
           branch |-> "none", avoid_steer |-> 0, line_steer |-> 0,
           prev_angle |-> 0, prev_pid |-> PidInit, log |-> <<>>,
           prev_autodrive |-> FALSE, prev_speed |-> 0, prev_manual |-> 0,
           cam |-> UNKNOWN, prev_filter |-> FilterInit, pushed |-> <<>>,
           raised |-> FALSE, broadcast |-> FALSE, elapsed_ms |-> 0,
           steps_since |-> 0, sensed_at |-> -1, sensor_gap |-> 0]

\* The state after SpeedCarController.__init__.
InitAll(cameras, sicks, gpss, timesteps) ==
    /\ has_camera \in cameras
    /\ has_sick \in sicks
    /\ has_gps \in gpss
    /\ timestep \in timesteps
    /\ autodrive = has_camera
    /\ speed_kph = IF has_camera THEN SpeedCap(INITIAL_SPEED_KPH) ELSE 0
    /\ steering_angle = 0
    /\ manual_steer = 0
    /\ pid = PidInit
    /\ filter = FilterInit
    /\ driver = [speed |-> speed_kph, steering |-> 0, brake |-> 0]
    /\ step_count = 0
    /\ gps_coords = <<0, 0, 0>>
    /\ gps_speed_kph = 0
    /\ broadcast_timer = FloatZero
    /\ clients = <<>>
    /\ clients_lock = "free"
    /\ ctl_pc = "loop"
    /\ bc = NoBroadcast
    /\ acceptor = [pc |-> "bind", conn |-> 0]
    /\ next_conn = 1
    /\ published = 0
    /\ received = <<>>
    /\ hist = [accepted_at |-> <<>>, joined_at |-> <<>>, failed |-> {},
               last_acceptor |-> "start", stopped_at |-> 0,
               stopped_step |-> 0]
    /\ tick = NoTick
    /\ AppInit

\* Start-up of a vehicle without a GPS device.
InitWith(cameras, sicks, timesteps) ==
    InitAll(cameras, sicks, {FALSE}, timesteps)

\* One iteration of the loop of run(): key is keyboard.getKey(), cam is
\* _process_camera(), sick is _process_sick(). An exception raised by
\* _run_autodrive leaves run(): the rest of the iteration is not executed
\* and the loop is over. Each intermediate value is computed once.
Step(key, cam, sick) ==
    LET c0 == [autodrive |-> autodrive, speed_kph |-> speed_kph,
               steering_angle |-> steering_angle,
               manual_steer |-> manual_steer, pid |-> pid,
               driver |-> driver, log |-> <<>>, branch |-> "none",
               avoid_steer |-> 0, line_steer |-> 0, raised |-> FALSE]
        sensed == step_count % SensorEveryN = 0
        obs == IF sensed /\ has_sick THEN sick ELSE NoObstacle
        elapsed == IF tick.broadcast THEN 0 ELSE tick.elapsed_ms
        since == IF tick.broadcast THEN 0 ELSE tick.steps_since
    IN  /\ ctl_pc = "loop"
        /\ \E c1 \in {HandleKeyboard(c0, key)},
              fu \in {IF sensed /\ has_camera
                      THEN FilterUpdate(filter, cam)
                      ELSE [filter |-> filter, out |-> UNKNOWN]},
              timer \in {FloatAdd(broadcast_timer, StepSeconds)} :
            \E auto \in {Arbitrates(c1, sensed)} :
            \E c2 \in {IF auto THEN RunAutodrive(c1, fu.out, obs[1], obs[2])
                        ELSE c1},
               due \in {FloatGe(timer, BroadcastInterval)} :
              /\ autodrive' = c2.autodrive
              /\ speed_kph' = c2.speed_kph
              /\ steering_angle' = c2.steering_angle
              /\ manual_steer' = c2.manual_steer
              /\ pid' = c2.pid
              /\ driver' = c2.driver
              /\ filter' = fu.filter
              /\ broadcast_timer' = IF c2.raised THEN broadcast_timer
                                    ELSE IF due THEN FloatZero
                                    ELSE timer
              /\ step_count' = IF c2.raised THEN step_count
                               ELSE step_count + 1
              /\ tick' = [key |-> key, sensed |-> sensed, auto |-> auto,
                          yellow |-> fu.out, obs_angle |-> obs[1],
                          obs_dist |-> obs[2], branch |-> c2.branch,
                          avoid_steer |-> c2.avoid_steer,
                          line_steer |-> c2.line_steer,
                          prev_angle |-> steering_angle, prev_pid |-> pid,
                          log |-> c2.log,
                          prev_autodrive |-> autodrive,
                          prev_speed |-> speed_kph,
                          prev_manual |-> manual_steer,
                          cam |-> IF sensed /\ has_camera THEN cam
                                  ELSE UNKNOWN,
                          prev_filter |-> filter,
                          pushed |-> IF sensed /\ has_camera
                                     THEN Pushed(filter, tick.pushed, cam)
                                     ELSE tick.pushed,
                          raised |-> c2.raised,
                          broadcast |-> ~c2.raised /\ due,
                          elapsed_ms |-> IF c2.raised THEN elapsed
                                         ELSE elapsed + timestep,
                          steps_since |-> IF c2.raised THEN since
                                          ELSE since + 1,
                          sensed_at |-> IF sensed THEN step_count
                                        ELSE tick.sensed_at,
                          sensor_gap |->
                              IF sensed /\ tick.sensed_at >= 0
                              THEN (step_count - tick.sensed_at) * timestep
                              ELSE IF sensed THEN 0
                              ELSE tick.sensor_gap]
              /\ \E g \in GpsReadings :
                    LET u == IF sensed /\ has_gps /\ ~c2.raised
                             THEN UpdateGps(g)
                             ELSE [coords |-> gps_coords,
                                   speed_kph |-> gps_speed_kph]
                    IN  /\ gps_coords' = u.coords
                        /\ gps_speed_kph' = u.speed_kph
              /\ ctl_pc' = IF c2.raised THEN "raised"
                           ELSE IF due THEN "broadcast"
                           ELSE "loop"
        /\ UNCHANGED app_vars
        /\ UNCHANGED <<has_camera, has_sick, has_gps, timestep, clients,
                       clients_lock, bc, acceptor, next_conn, published,
                       received, hist>>

\* ------------------------------------------------------------ Spec
\* The controller from start-up: arbitration under every combination of a
\* few lane and obstacle readings, with the operator switching modes.
ArbKeys == {"none", "LEFT", "A"}
LaneReadings == {UNKNOWN, 600, -600}
ObstacleReadings ==
    {NoObstacle, <<100, 20>>, <<0, 10>>, <<500, 20>>, <<-500, 20>>}

Init == InitWith(BOOLEAN, BOOLEAN, {SENSOR_PERIOD})

Next ==
    \/ /\ step_count < MaxSteps
       /\ \E key \in ArbKeys, cam \in LaneReadings, sick \in ObstacleReadings :
             Step(key, cam, sick)
    \/ BroadcastBegin
    \/ BroadcastEnd

Spec == Init /\ [][Next]_vars

\* ------------------------------------------------------------ SpecAvoid
\* The controller from start-up with an obstacle that stays dead ahead:
\* long runs, few readings.
AvoidLaneReadings == {UNKNOWN, 600}
AvoidObstacleReadings == {NoObstacle, <<0, 10>>}

NextAvoid ==
    \/ /\ step_count < MaxAvoidSteps
       /\ \E cam \in AvoidLaneReadings, sick \in AvoidObstacleReadings :
             Step("none", cam, sick)
    \/ BroadcastBegin
    \/ BroadcastEnd

SpecAvoid == Init /\ [][NextAvoid]_vars

\* ------------------------------------------------------------ SpecTrim
\* The operator at the steering keys: runs long enough to bring the trim
\* counter to its bound, with no lane in sight and at most an obstacle
\* outside the cone.
TrimKeys == {"none", "LEFT", "RIGHT", "A"}
TrimObstacleReadings == {NoObstacle, <<-500, 20>>}

NextTrim ==
    \/ /\ step_count < MaxTrimSteps
       /\ \E key \in TrimKeys, sick \in TrimObstacleReadings :
             Step(key, UNKNOWN, sick)
    \/ BroadcastBegin
    \/ BroadcastEnd

SpecTrim == Init /\ [][NextTrim]_vars

\* ------------------------------------------------------------ SpecSpeed
\* The operator at the speed keys: runs long enough to bring the speed to
\* its cap from a standstill.
SpeedKeys == {"none", "UP", "DOWN"}

NextSpeed ==
    \/ /\ step_count < MaxSpeedSteps
       /\ \E key \in SpeedKeys, sick \in TrimObstacleReadings :
             Step(key, UNKNOWN, sick)
    \/ BroadcastBegin
    \/ BroadcastEnd

SpecSpeed == Init /\ [][NextSpeed]_vars

\* ------------------------------------------------------------ SpecNear
\* The controller from start-up with obstacles that may be at distance 0:
\* inside the cone, on its edge and outside it.
NearObstacleReadings ==
    {NoObstacle, <<100, 20>>, <<100, 0>>, <<0, 0>>, <<-500, 0>>}

NextNear ==
    \/ /\ step_count < MaxSteps
       /\ \E cam \in AvoidLaneReadings, sick \in NearObstacleReadings :
             Step("none", cam, sick)
    \/ BroadcastBegin
    \/ BroadcastEnd

SpecNear == Init /\ [][NextNear]_vars

\* ------------------------------------------------------------ SpecTimer
\* The loop at several basic time steps of the simulation, with nothing in
\* view and nobody at the keys: only the cadence of the sensor ticks and of
\* the broadcasts is of interest.
Timesteps == {10, 20, 32, 50, 100}

InitTimer == InitAll(BOOLEAN, {FALSE}, BOOLEAN, Timesteps)

NextTimer ==
    \/ /\ step_count < MaxTimerSteps
       /\ Step("none", UNKNOWN, NoObstacle)
    \/ BroadcastBegin
    \/ BroadcastEnd

SpecTimer == InitTimer /\ [][NextTimer]_vars

\* ------------------------------------------------------------ SpecPID
\* LaneFollowPID on its own: any sequence of update(error) and reset().
\* Errors in millirad: -20, -3, 0, 5 and 20 rad.
PidErrors == {-20000, -3000, 0, 5000, 20000}

PidUpdateCall(error) ==
    LET r == PidUpdate(pid, error)
    IN  /\ pid' = r.pid
        /\ tick' = [NoTick EXCEPT
                      !.prev_pid = pid,
                      !.line_steer = r.out,
                      !.log = <<Ev("pid_update", error, pid.integral,
                                   r.pid.integral, r.out)>>]
        /\ UNCHANGED app_vars
        /\ UNCHANGED <<has_camera, has_sick, timestep, autodrive, speed_kph,
                       steering_angle, manual_steer, filter, driver,
                       step_count, broadcast_timer, gps_vars,
                       telemetry_vars>>

PidResetCall ==
    /\ pid' = PidReset(pid)
    /\ tick' = [NoTick EXCEPT !.prev_pid = pid,
                              !.log = <<Ev("pid_reset", 0, 0, 0, 0)>>]
    /\ UNCHANGED app_vars
    /\ UNCHANGED <<has_camera, has_sick, timestep, autodrive, speed_kph,
                   steering_angle, manual_steer, filter, driver,
                   step_count, broadcast_timer, gps_vars, telemetry_vars>>

NextPID ==
    \/ \E error \in PidErrors : PidUpdateCall(error)
    \/ PidResetCall

SpecPID == Init /\ [][NextPID]_vars

\* ------------------------------------------------------------ SpecSteer
\* _set_steering_angle on its own: any sequence of calls. Targets in
\* microrad: 0, 0.3 and 0.9 rad to either side.
SteerInputs == {-900000, -300000, 0, 300000, 900000}

SteerCall(target) ==
    LET c == [steering_angle |-> steering_angle, driver |-> driver,
              log |-> <<>>]
        r == SetSteeringAngle(c, target)
    IN  /\ steering_angle' = r.steering_angle
        /\ driver' = r.driver
        /\ tick' = [NoTick EXCEPT !.prev_angle = steering_angle,
                                  !.log = r.log]
        /\ UNCHANGED app_vars
        /\ UNCHANGED <<has_camera, has_sick, timestep, autodrive, speed_kph,
                       manual_steer, pid, filter, step_count,
                       broadcast_timer, gps_vars, telemetry_vars>>

NextSteer == \E target \in SteerInputs : SteerCall(target)

SpecSteer == Init /\ [][NextSteer]_vars

\* ------------------------------------------------------------ SpecFilter
\* AngleFilter on its own: any sequence of update(reading) calls.
\* Readings in millirad: absent, 0.3, -0.3 and 0.6 rad.
FilterReadings == {UNKNOWN, 300, -300, 600}

FilterCall(reading) ==
    LET r == FilterUpdate(filter, reading)
    IN  /\ filter' = r.filter
        /\ tick' = [NoTick EXCEPT
                      !.cam = reading,
                      !.yellow = r.out,
                      !.prev_filter = filter,
                      !.pushed = Pushed(filter, tick.pushed, reading)]
        /\ UNCHANGED app_vars
        /\ UNCHANGED <<has_camera, has_sick, timestep, autodrive, speed_kph,
                       steering_angle, manual_steer, pid, driver,
                       step_count, broadcast_timer, gps_vars,
                       telemetry_vars>>

NextFilter == \E reading \in FilterReadings : FilterCall(reading)

SpecFilter == Init /\ [][NextFilter]_vars

\* ------------------------------------------------------------ SpecDecision
\* DecisionEngine on its own: any sequence of update calls half a second
\* apart. Signs of 30 and 40 mph, a vehicle without a fix, at rest, at
\* 10 m/s (22.4 mph) and at 18 m/s (40.3 mph), a map limit of 40 mph or none.
DetectedSigns == {None, 30, 40}
GpsSpeeds == {None, 0, 100, 180}
MapSpeeds == {None, 40}

InitDecision == InitAll({FALSE}, {FALSE}, {FALSE}, {SENSOR_PERIOD})

DecisionCall(top, gps, map_mph) ==
    LET t == now + FramePeriod
        r == DecisionUpdate(decision, top, gps, map_mph, t)
    IN  /\ now' = t
        /\ decision' = r.engine
        /\ seen' = SeenUpdate(top, gps, map_mph, r.event, t)
        /\ UNCHANGED <<control_vars, gps_vars, telemetry_vars, alerter, osm,
                       map_state, vehicle, bridge>>

NextDecision ==
    /\ seen.calls < MaxDecisionCalls
    /\ \E top \in DetectedSigns, gps \in GpsSpeeds, map_mph \in MapSpeeds :
          DecisionCall(top, gps, map_mph)

SpecDecision == InitDecision /\ [][NextDecision]_vars

\* ------------------------------------------------------------ SpecAlert
\* The loop of main() in front of a 30 mph sign that comes and goes, the
\* vehicle at 10 m/s or 18 m/s, the map knowing 40 mph or nothing: long
\* enough for the cooldown of the alerts to run out.
AlertSigns == {None, 30}
AlertGpsSpeeds == {100, 180}

NextAlert ==
    /\ seen.calls < MaxFrames
    /\ \E top \in AlertSigns, gps \in AlertGpsSpeeds, net \in MapSpeeds :
          Frame(TRUE, top, gps, net)

SpecAlert == InitDecision /\ [][NextAlert]_vars

\* ------------------------------------------------------------ SpecMap
\* OSMMaxSpeedClient on its own: lookups for two places, 10 s or 61 s
\* apart, the request failing, finding no limit, or finding 30 or 40 mph.
MapKeys == {1, 2}
NetOutcomes == {NET_ERROR, None, 30, 40}
LookupGaps == {100, MAP_CACHE_SECONDS + 10}

MapLookup(key, net, gap) ==
    LET t == now + gap
        r == GetMaxspeedMph(osm, key, net, t)
    IN  /\ now' = t
        /\ osm' = r.osm
        /\ seen' = [seen EXCEPT !.call = "lookup", !.calls = @ + 1,
                                !.key = key, !.prev_store = osm.store,
                                !.requested = r.requested,
                                !.value = r.value]
        /\ UNCHANGED <<control_vars, gps_vars, telemetry_vars, decision,
                       alerter, map_state, vehicle, bridge>>

NextMap ==
    /\ seen.calls < MaxLookups
    /\ \E key \in MapKeys, net \in NetOutcomes, gap \in LookupGaps :
          MapLookup(key, net, gap)

SpecMap == InitDecision /\ [][NextMap]_vars

\* ------------------------------------------------------------ SpecBridge
\* The listener thread of WebotsBridge against a controller that comes and
\* goes, reporting 0, 20 or 50 mph.
PacketSpeeds == {0, 20, 50}

NextBridge ==
    /\ seen.calls < MaxBridgeSteps
    /\ \/ BridgeConnected
       \/ BridgeRefused
       \/ BridgeWake
       \/ \E speed_mph \in PacketSpeeds : BridgePacket(speed_mph)
       \/ BridgeTimeout
       \/ BridgeClosed
       \/ BridgeError

SpecBridge == InitDecision /\ [][NextBridge]_vars

\* ------------------------------------------------------------ SpecTelemetry
\* The control thread and the acceptor thread side by side, on a vehicle
\* driven by hand with nothing in view: subscribers connect at any moment
\* and any write to one may fail.
InitTelemetry == InitAll({FALSE}, {FALSE}, BOOLEAN, {SENSOR_PERIOD})

NextTelemetry ==
    \/ /\ step_count < MaxTelemetrySteps
       /\ Step("none", UNKNOWN, NoObstacle)
    \/ BroadcastBegin
    \/ BroadcastSend
    \/ BroadcastEnd
    \/ AcceptorBind
    \/ AcceptorBindFail
    \/ AcceptorTimeout
    \/ AcceptorError
    \/ AcceptorAccept
    \/ AcceptorLock
    \/ AcceptorAppend

SpecTelemetry == InitTelemetry /\ [][NextTelemetry]_vars

\* ------------------------------------------------------------ SpecAcceptor
\* SpecTelemetry on a vehicle that drives itself along a lane that comes and
\* goes.
InitAcceptor == InitAll({TRUE}, {FALSE}, {FALSE}, {SENSOR_PERIOD})

NextAcceptor ==
    \/ /\ step_count < MaxTelemetrySteps
       /\ \E cam \in AvoidLaneReadings : Step("none", cam, NoObstacle)
    \/ BroadcastBegin
    \/ BroadcastSend
    \/ BroadcastEnd
    \/ AcceptorBind
    \/ AcceptorBindFail
    \/ AcceptorTimeout
    \/ AcceptorError
    \/ AcceptorAccept
    \/ AcceptorLock
    \/ AcceptorAppend

SpecAcceptor == InitAcceptor /\ [][NextAcceptor]_vars

\* ------------------------------------------------------------ SpecSlow
\* SpecTelemetry with subscribers that may stop reading what they are sent.
NextSlow ==
    \/ NextTelemetry
    \/ BroadcastStall

SpecSlow == InitTelemetry /\ [][NextSlow]_vars

\* ------------------------------------------------------------ claims
\* the calls of kind op made by the last loop iteration (indices of tick.log)
Calls(op) == {i \in DOMAIN tick.log : tick.log[i].op = op}
\* the target of the steering call of the last iteration, if there is one
SteerTargets == {tick.log[i].arg : i \in Calls("steer")}
\* an obstacle reading was present in the last iteration
SawObstacle == has_sick /\ tick.obs_angle # UNKNOWN
SawLane == tick.yellow # UNKNOWN

\* C1: after every update or reset of the PID, the integral lies strictly
\* inside (-30, 30).
C1_IntegralInside ==
    -INTEGRAL_LIMIT < pid.integral /\ pid.integral < INTEGRAL_LIMIT

\* C2: the stored steering angle lies in [-0.5, 0.5] in every reachable state.
C2_StoredAngleInAuthority ==
    -AUTHORITY <= steering_angle /\ steering_angle <= AUTHORITY

\* C3: in every loop iteration the steering actuator is called at most once,
\* each call moves the stored angle by at most 0.1 rad, and the angle it
\* forwards is within 0.1 rad of the stored angle before the call.
C3_RateLimited ==
    /\ Cardinality(Calls("steer")) <= 1
    /\ Abs(steering_angle - tick.prev_angle) <= RATE_LIMIT
    /\ \A i \in Calls("steer") :
          /\ Abs(tick.log[i].val - tick.log[i].prev) <= RATE_LIMIT
          /\ Abs(tick.log[i].out - tick.log[i].prev) <= RATE_LIMIT

\* C4: every steering command forwarded to the backend lies in [-0.5, 0.5]:
\* a rate-limited angle inside the range is forwarded as it is, one beyond
\* the range is forwarded as the nearer end of the range (clamped, not
\* dropped); every brake command lies in [0, 1].
C4_CommandsInRange ==
    /\ -AUTHORITY <= driver.steering /\ driver.steering <= AUTHORITY
    /\ 0 <= driver.brake /\ driver.brake <= 10
    /\ \A i \in Calls("steer") :
          LET e == tick.log[i]
          IN  /\ driver.steering = e.out
              /\ (Abs(e.val) <= AUTHORITY => e.out = e.val)
              /\ (e.val > AUTHORITY => e.out = AUTHORITY)
              /\ (e.val < -AUTHORITY => e.out = -AUTHORITY)
    /\ \A i \in Calls("brake") : tick.log[i].out \in 0..10

\* C4 witness: a target beyond the authority was requested, the rate-limited
\* angle was beyond it too, and the end of the range was forwarded.
C4_Witness ==
    \E i \in Calls("steer") :
        /\ tick.log[i].arg > AUTHORITY
        /\ tick.log[i].val > AUTHORITY
        /\ tick.log[i].out = AUTHORITY
        /\ driver.steering = AUTHORITY

\* C5: an obstacle whose bearing is outside (-0.4, 0.4), on either side,
\* adds nothing to the current steering, whatever its distance.
C5_NoBiasOutsideCone ==
    (tick.auto /\ SawObstacle
       /\ (tick.obs_angle >= CONE \/ tick.obs_angle <= -CONE))
    => tick.avoid_steer = tick.prev_angle

\* C6: for an obstacle at bearing b and distance d > 0 the avoidance steer
\* is current + (b - 0.25)/d when 0 < b < 0.4 and current + (b + 0.25)/d
\* when -0.4 < b <= 0 (b = 0.1, d = 2.0, current 0 gives -0.075); without an
\* obstacle reading no steer is computed and the obstacle branch is not taken.
C6_AvoidanceFormula ==
    /\ (tick.auto /\ SawObstacle /\ tick.obs_dist > 0) =>
          /\ (0 < tick.obs_angle /\ tick.obs_angle < CONE) =>
                (tick.avoid_steer - tick.prev_angle) * tick.obs_dist
                   = (tick.obs_angle - OFFSET) * 10000
          /\ (-CONE < tick.obs_angle /\ tick.obs_angle <= 0) =>
                (tick.avoid_steer - tick.prev_angle) * tick.obs_dist
                   = (tick.obs_angle + OFFSET) * 10000
          /\ (tick.obs_angle = 100 /\ tick.obs_dist = 20
                /\ tick.prev_angle = 0) => tick.avoid_steer = -75000
    /\ (tick.auto /\ ~SawObstacle) =>
          /\ tick.branch # "obstacle"
          /\ tick.avoid_steer = 0

\* C6 witness: the example of the claim, and a reading on the other side.
C6_Witness ==
    /\ tick.auto /\ SawObstacle
    /\ tick.obs_angle = 100 /\ tick.obs_dist = 20 /\ tick.prev_angle = 0
    /\ tick.avoid_steer = -75000

\* the avoidance steer and the line correction of the last iteration have
\* the same strict sign
SameSign ==
    \/ tick.avoid_steer > 0 /\ tick.line_steer > 0
    \/ tick.avoid_steer < 0 /\ tick.line_steer < 0

\* C7: in an auto iteration with an obstacle and a lane reading, when the
\* avoidance steer and the PID correction have the same strict sign the
\* steering target is the one of larger magnitude.
C7_SameSignLarger ==
    (tick.auto /\ SawObstacle /\ SawLane /\ SameSign) =>
       /\ Cardinality(Calls("steer")) = 1
       /\ \A t \in SteerTargets :
             /\ t \in {tick.avoid_steer, tick.line_steer}
             /\ Abs(t) >= Abs(tick.avoid_steer)
             /\ Abs(t) >= Abs(tick.line_steer)

\* C7 witness: both positive and the line correction the larger one.
C7_Witness ==
    /\ tick.auto /\ SawObstacle /\ SawLane
    /\ tick.avoid_steer > 0
    /\ tick.line_steer > tick.avoid_steer
    /\ SteerTargets = {tick.line_steer}

\* C8: in an auto iteration with an obstacle and a lane reading, when the
\* avoidance steer and the PID correction do not have the same strict sign
\* the steering target is the avoidance steer, and the PID is not reset:
\* its flag is clear after the iteration.
C8_DisagreeAvoidanceWins ==
    (tick.auto /\ SawObstacle /\ SawLane /\ ~SameSign) =>
       /\ SteerTargets = {tick.avoid_steer}
       /\ Calls("pid_reset") = {}
       /\ pid.need_reset = FALSE

\* C8 witness: opposite signs, the line correction the larger in magnitude.
C8_Witness ==
    /\ tick.auto /\ SawObstacle /\ SawLane
    /\ tick.avoid_steer > 0 /\ tick.line_steer < 0
    /\ Abs(tick.line_steer) > Abs(tick.avoid_steer)
    /\ SteerTargets = {tick.avoid_steer}
    /\ pid.need_reset = FALSE

\* C9: in an auto iteration with neither an obstacle nor a lane reading the
\* brake is set to 0.4, the PID is flagged for reset and no steering command
\* is issued: the stored angle is the one before the iteration.
C9_LostLineBrakes ==
    (tick.auto /\ ~SawObstacle /\ ~SawLane) =>
       /\ driver.brake = PARTIAL_BRAKE
       /\ \A i \in Calls("brake") : tick.log[i].out = PARTIAL_BRAKE
       /\ Calls("brake") # {}
       /\ pid.need_reset = TRUE
       /\ Calls("steer") = {}
       /\ steering_angle = tick.prev_angle

\* C9 witness: the line is lost while the wheel is turned.
C9_Witness ==
    /\ tick.auto /\ ~SawObstacle /\ ~SawLane
    /\ tick.prev_angle # 0
    /\ steering_angle = tick.prev_angle
    /\ driver.brake = PARTIAL_BRAKE
    /\ pid.need_reset = TRUE

\* C10: in an auto iteration with a lane reading and no obstacle reading the
\* brake is released, the PID is updated exactly once with the filtered lane
\* angle and the steering target is the correction that update returned.
C10_LaneFollow ==
    (tick.auto /\ ~SawObstacle /\ SawLane) =>
       /\ driver.brake = 0
       /\ Calls("brake") # {}
       /\ Cardinality(Calls("pid_update")) = 1
       /\ \A i \in Calls("pid_update") :
             /\ tick.log[i].arg = tick.yellow
             /\ SteerTargets = {tick.log[i].out}
       /\ Cardinality(Calls("steer")) = 1
       /\ pid = PidUpdate(tick.prev_pid, tick.yellow).pid
       /\ SteerTargets = {PidUpdate(tick.prev_pid, tick.yellow).out}

\* C10 witness: the line is found again after a lost-line iteration that
\* braked.
C10_Witness ==
    /\ tick.auto /\ ~SawObstacle /\ SawLane
    /\ tick.prev_pid.need_reset = TRUE
    /\ driver.brake = 0
    /\ SteerTargets # {} /\ SteerTargets # {0}

\* the last iteration read a steering-trim key / a speed key
TrimKey == tick.key \in {"LEFT", "RIGHT"}
TrimInc == IF tick.key = "RIGHT" THEN 1 ELSE -1

\* C11: auto-drive is on only with a camera; at start-up it is on exactly
\* when a camera was found; the key A without a camera changes neither the
\* mode, the speed, the steering angle, the trim counter nor the PID, and
\* commands nothing.
C11_AutoNeedsCamera ==
    /\ autodrive => has_camera
    /\ step_count = 0 => (autodrive <=> has_camera)
    /\ (tick.key = "A" /\ ~has_camera) =>
          /\ autodrive = FALSE
          /\ autodrive = tick.prev_autodrive
          /\ speed_kph = tick.prev_speed
          /\ steering_angle = tick.prev_angle
          /\ manual_steer = tick.prev_manual
          /\ pid = tick.prev_pid
          /\ tick.log = <<>>
    /\ (tick.key = "A" /\ has_camera) => autodrive = TRUE

\* C11 witness: the request is refused while the wheel is trimmed.
C11_Witness ==
    /\ tick.key = "A" /\ ~has_camera
    /\ manual_steer # 0 /\ steering_angle # 0
    /\ autodrive = FALSE

\* C12: a trim key switches auto-drive off in the same iteration, also from
\* auto-drive and also when the step is out of range; no auto-drive
\* steering, brake command, PID update or PID reset happens in that
\* iteration.
C12_TrimForcesManual ==
    TrimKey =>
       /\ autodrive = FALSE
       /\ tick.auto = FALSE
       /\ tick.branch = "none"
       /\ Calls("brake") = {}
       /\ Calls("pid_update") = {}
       /\ Calls("pid_reset") = {}
       /\ pid = tick.prev_pid
       /\ \A t \in SteerTargets : t = manual_steer * TRIM_STEP

\* C12 witness: auto-drive was on and the step was refused at the bound.
C12_Witness ==
    /\ tick.key = "LEFT"
    /\ tick.prev_autodrive = TRUE
    /\ tick.prev_manual = -TRIM_MAX
    /\ manual_steer = -TRIM_MAX
    /\ autodrive = FALSE

\* C13: the trim counter stays in [-25, 25]; a step that would leave the
\* range changes neither the counter nor the steering and commands nothing;
\* an accepted step asks the steering actuator once for counter * 0.02 rad,
\* which moves the stored angle by at most 0.1 rad and forwards an angle in
\* [-0.5, 0.5].
C13_TrimCounter ==
    /\ -TRIM_MAX <= manual_steer /\ manual_steer <= TRIM_MAX
    /\ TrimKey =>
          LET new_steer == tick.prev_manual + TrimInc
          IN  IF new_steer < -TRIM_MAX \/ new_steer > TRIM_MAX
              THEN /\ manual_steer = tick.prev_manual
                   /\ steering_angle = tick.prev_angle
                   /\ Calls("steer") = {}
              ELSE /\ manual_steer = new_steer
                   /\ Cardinality(Calls("steer")) = 1
                   /\ \A i \in Calls("steer") :
                         /\ tick.log[i].arg = new_steer * TRIM_STEP
                         /\ tick.log[i].prev = tick.prev_angle
                         /\ tick.log[i].val = steering_angle
                         /\ Abs(steering_angle - tick.prev_angle)
                               <= RATE_LIMIT
                         /\ Abs(tick.log[i].out) <= AUTHORITY
                         /\ driver.steering = tick.log[i].out

\* C13 witness: the last accepted step to the right, and a refused one.
C13_Witness ==
    /\ tick.key = "RIGHT"
    /\ tick.prev_manual = TRIM_MAX - 1
    /\ manual_steer = TRIM_MAX
    /\ SteerTargets = {TRIM_MAX * TRIM_STEP}

\* C14: the speed stays in [0, 250] and is the speed the backend holds; a
\* speed key adds or takes 5 km/h, saturating at 250 and at 0, in either
\* mode, forwards the result, and changes neither the mode nor the trim
\* counter nor, by itself, the steering angle.
C14_SpeedKeys ==
    /\ 0 <= speed_kph /\ speed_kph <= SPEED_MAX
    /\ driver.speed = speed_kph
    /\ tick.key \in {"UP", "DOWN"} =>
          /\ speed_kph = IF tick.key = "UP"
                         THEN Min(tick.prev_speed + SPEED_INC, SPEED_MAX)
                         ELSE Max(tick.prev_speed - SPEED_INC, 0)
          /\ Cardinality(Calls("speed")) = 1
          /\ \A i \in Calls("speed") : tick.log[i].out = speed_kph
          /\ autodrive = tick.prev_autodrive
          /\ manual_steer = tick.prev_manual
          /\ \A i \in Calls("steer") : tick.log[i].prev = tick.prev_angle
          /\ ~tick.auto => (Calls("steer") = {}
                              /\ steering_angle = tick.prev_angle)

\* C14 witness: the speed is at its cap in manual mode and is raised again.
C14_Witness ==
    /\ tick.key = "UP"
    /\ autodrive = FALSE
    /\ tick.prev_speed = SPEED_MAX
    /\ speed_kph = SPEED_MAX
    /\ \E i \in Calls("speed") : tick.log[i].arg = SPEED_MAX + SPEED_INC

\* C15: the first call of AngleFilter.update returns the no-signal value,
\* whatever reading it is given.
C15_FirstCallAbsent ==
    (tick.prev_filter.first_call /\ ~filter.first_call)
    => tick.yellow = UNKNOWN

\* C16: after the first call, an absent reading clears the window to
\* [0, 0, 0] and returns absence; a valid reading enters the window, the
\* oldest entry leaves it, and three times the value returned is the sum of
\* the window, which is the sum of the readings given since the window was
\* last cleared, the last three at most (a single 0.3 returns 0.1). The
\* window always has 3 entries.
C16_WindowMean ==
    /\ Len(filter.values) = FILTER_SIZE
    /\ ~tick.prev_filter.first_call =>
          IF tick.cam = UNKNOWN
          THEN /\ filter.values = <<0, 0, 0>>
               /\ tick.yellow = UNKNOWN
          ELSE /\ \A i \in 1..(FILTER_SIZE - 1) :
                     filter.values[i] = tick.prev_filter.values[i + 1]
               /\ filter.values[FILTER_SIZE] = tick.cam
               /\ tick.yellow # UNKNOWN
               /\ FILTER_SIZE * tick.yellow = SumSeq(filter.values)
               /\ FILTER_SIZE * tick.yellow = SumSeq(tick.pushed)
               /\ tick.pushed = <<300>> => tick.yellow = 100

\* C16 witness: a single 0.3 after an absent reading that discarded a
\* window holding other readings.
C16_Witness ==
    /\ ~tick.prev_filter.first_call
    /\ tick.prev_filter.values = <<0, 0, 0>>
    /\ tick.cam = 300
    /\ tick.pushed = <<300>>
    /\ filter.values = <<0, 0, 300>>
    /\ tick.yellow = 100

\* the error and the integral of the update the PID has just made
UpdateMade == Calls("pid_update") # {}
ResetMade == Calls("pid_reset") # {}
UpdateError == tick.log[1].arg
UpdateOut == tick.log[1].out

\* C17: an update whose error has the sign opposite to the previous error
\* clears the integral before accumulating: the integral after the call is
\* the new error (after 5, 5, 5 an update with -3 leaves -3).
C17_SignFlipClears ==
    (UpdateMade
       /\ \/ tick.prev_pid.old_value > 0 /\ UpdateError < 0
          \/ tick.prev_pid.old_value < 0 /\ UpdateError > 0)
    => pid.integral = UpdateError

\* C17 witness: the example of the claim.
C17_Witness ==
    /\ UpdateMade
    /\ tick.prev_pid = [old_value |-> 5000, integral |-> 15000,
                        need_reset |-> FALSE]
    /\ UpdateError = -3000
    /\ pid.integral = -3000

\* C18: reset() raises the flag and changes nothing else, also when the flag
\* is already up; the flag is cleared by update only; an update(e) that
\* finds the flag up leaves old_value = e and integral = e, clears the flag
\* and returns Kp*e + Ki*e.
C18_LazyReset ==
    /\ ResetMade =>
          /\ pid.need_reset = TRUE
          /\ pid.old_value = tick.prev_pid.old_value
          /\ pid.integral = tick.prev_pid.integral
    /\ UpdateMade => pid.need_reset = FALSE
    /\ (UpdateMade /\ tick.prev_pid.need_reset) =>
          /\ pid.old_value = UpdateError
          /\ pid.integral = UpdateError
          /\ UpdateOut = KP * UpdateError + KI * UpdateError

\* C18 witness: an update after a reset that found a finite integral and
\* another old value.
C18_Witness ==
    /\ UpdateMade
    /\ tick.prev_pid.need_reset = TRUE
    /\ tick.prev_pid.integral # 0
    /\ tick.prev_pid.old_value = 5000
    /\ UpdateError = 20000
    /\ pid = [old_value |-> 20000, integral |-> 20000, need_reset |-> FALSE]
    /\ UpdateOut = KP * 20000 + KI * 20000

\* the connections the acceptor has appended to the set so far
Appended == DOMAIN hist.joined_at
\* the connections serve() has been handed by accept()
Accepted == DOMAIN hist.accepted_at
Position(c) == CHOOSE i \in DOMAIN clients : clients[i] = c
\* the publication numbers of the frames sent to connection c, in order
FrameNumbers(c) == [i \in DOMAIN received[c] |-> received[c][i].ts]
\* the publication numbers a + 1 .. b, in order
Interval(a, b) == [i \in 1..(b - a) |-> a + i]
\* the last publication whose pass has reached connection c
Reached(c) ==
    IF ctl_pc = "sending" /\ Position(c) >= bc.idx THEN published - 1
    ELSE published
\* connection c of the set has had no failed write and has been sent every
\* frame numbered above since, in order
SentAllSince(c, since) == FrameNumbers(c) = Interval(since, Reached(c))
\* The set holds every appended connection except those whose write failed
\* in a pass that is over; nothing leaves it while a pass runs.
RemovedExactlyFailed ==
    /\ Range(clients) = Appended \ (hist.failed \ Range(bc.dead))
    /\ ctl_pc = "sending" => Range(bc.start) \subseteq Range(clients)

\* C19 (as stated): a broadcast removes exactly the subscribers whose write
\* failed, only after the pass, and every subscriber whose writes never fail
\* has received every frame published since accept() returned it, in
\* publish order.
C19_FramesSinceAccept ==
    /\ RemovedExactlyFailed
    /\ \A c \in Range(clients) \ hist.failed :
          SentAllSince(c, hist.accepted_at[c])

\* C19 (amended): a broadcast removes exactly the subscribers whose write
\* failed, only after the pass, and every subscriber whose writes never fail
\* has received every frame published since it was appended to the set, in
\* publish order.
C19_FramesSinceAppend ==
    /\ RemovedExactlyFailed
    /\ \A c \in Range(clients) \ hist.failed :
          SentAllSince(c, hist.joined_at[c])

\* Three subscribers, the write to one failed in the first pass, and the
\* other two have been sent that frame and a later one.
C19_Witness ==
    /\ ctl_pc = "loop"
    /\ Cardinality(Appended) = 3
    /\ Cardinality(hist.failed) = 1
    /\ Len(clients) = 2
    /\ published >= 2
    /\ \A c \in hist.failed : received[c] = <<>>
    /\ \A c \in Range(clients) : FrameNumbers(c) = Interval(0, published)

\* C20: the acceptor's append and the pass of a broadcast never run at the
\* same time, each runs only while its thread holds the clients lock, the
\* set stays as it was while a pass iterates it, and every accepted
\* connection is in the set, on its way into it, or was removed after a
\* failed write.
C20_LockExcludes ==
    /\ ~(ctl_pc = "sending" /\ acceptor.pc = "append")
    /\ ctl_pc = "sending" => clients_lock = "control"
    /\ acceptor.pc = "append" => clients_lock = "acceptor"
    /\ ctl_pc = "sending" => clients = bc.start
    /\ \A c \in Accepted :
          \/ c \in Range(clients)
          \/ acceptor.pc # "accept" /\ acceptor.conn = c
          \/ c \in hist.failed

\* A connection was accepted, a broadcast began before the acceptor could
\* append it, and with both over the connection is in the set.
C20_Witness ==
    /\ ctl_pc = "loop"
    /\ acceptor.pc = "accept"
    /\ \E c \in Range(clients) : hist.accepted_at[c] < hist.joined_at[c]

\* C21: the control thread never waits on a subscriber's write, and so
\* never holds the clients lock across such a wait.
C21_NeverWaitsOnWrite == ~(ctl_pc = "waiting" /\ clients_lock = "control")

\* C22: an accept timeout leaves the acceptor accepting; once the acceptor
\* has stopped (failed bind or failed accept) it holds no lock, the commands
\* of an auto iteration are those of the arbitration, a pass over an empty
\* set touches nothing, and every subscriber in the set without a failed
\* write has been sent every frame published since it joined.
C22_AcceptorFailureIsolated ==
    /\ hist.last_acceptor = "timeout" => acceptor.pc = "accept"
    /\ acceptor.pc = "stopped" =>
          /\ clients_lock # "acceptor"
          /\ (tick.auto /\ SawLane) =>
                /\ driver.brake = 0
                /\ SteerTargets = {PidUpdate(tick.prev_pid, tick.yellow).out}
                /\ driver.steering = Forwarded(steering_angle)
          /\ (tick.auto /\ ~SawLane) =>
                /\ driver.brake = PARTIAL_BRAKE
                /\ Calls("steer") = {}
          /\ driver.speed = speed_kph
          /\ (ctl_pc = "sending" /\ bc.start = <<>>) =>
                clients = <<>> /\ bc.dead = <<>> /\ bc.idx = 1
          /\ \A c \in Range(clients) \ hist.failed :
                SentAllSince(c, hist.joined_at[c])

\* The acceptor stopped with a subscriber in the set; since then the loop
\* has run an auto iteration that steered and the subscriber has been sent
\* a frame.
C22_Witness ==
    /\ acceptor.pc = "stopped"
    /\ step_count > hist.stopped_step
    /\ tick.auto /\ SawLane
    /\ SteerTargets # {} /\ SteerTargets # {0}
    /\ \E c \in Range(clients) :
          /\ received[c] # <<>>
          /\ received[c][Len(received[c])].ts > hist.stopped_at

\* C23: no exception leaves the control path: run() is never ended by an
\* exception of the arbitration, whatever the lane and obstacle readings.
C23_NoException == ctl_pc # "raised"

\* the obstacle reading of the last iteration lay outside the cone
OutsideCone == SawObstacle /\ Abs(tick.obs_angle) >= CONE

\* C24: an auto iteration whose obstacle reading lies outside the cone acts
\* as if there were no obstacle reading: with a lane reading the steering
\* target is the PID correction itself, without one the brake is set to 0.4
\* and no steering command is issued.
C24_OutsideConeAsAbsent ==
    (tick.auto /\ OutsideCone) =>
       /\ SawLane =>
             /\ driver.brake = 0
             /\ SteerTargets = {PidUpdate(tick.prev_pid, tick.yellow).out}
       /\ ~SawLane =>
             /\ driver.brake = PARTIAL_BRAKE
             /\ Calls("steer") = {}

\* C25: after every auto iteration that ran to its end, an obstacle reading
\* means the brake is released; an obstacle reading without a lane reading
\* means the PID is flagged for reset and the steering target is the
\* avoidance steer; the brake is 0.4 exactly when neither reading was
\* present; the PID reset flag is set exactly when the lane reading was
\* absent.
C25_FixedPriority ==
    (tick.auto /\ ~tick.raised) =>
       /\ SawObstacle => driver.brake = 0
       /\ (SawObstacle /\ ~SawLane) =>
             /\ Calls("pid_reset") # {}
             /\ Calls("pid_update") = {}
             /\ tick.avoid_steer =
                   AvoidSteer(tick.prev_angle, tick.obs_angle, tick.obs_dist)
             /\ SteerTargets = {tick.avoid_steer}
       /\ driver.brake = PARTIAL_BRAKE <=> (~SawObstacle /\ ~SawLane)
       /\ pid.need_reset <=> ~SawLane

\* An obstacle in the cone with no lane in sight, right after a lost-line
\* iteration: the brake is released and the target is the avoidance steer.
C25_Witness ==
    /\ tick.auto /\ ~tick.raised
    /\ SawObstacle /\ ~SawLane
    /\ Abs(tick.obs_angle) < CONE
    /\ tick.prev_pid.need_reset
    /\ pid.need_reset
    /\ driver.brake = 0
    /\ SteerTargets = {tick.avoid_steer}
    /\ tick.avoid_steer # tick.prev_angle

\* the integral the last update found lay at or beyond a bound
AtUpperBound == tick.prev_pid.integral >= INTEGRAL_LIMIT
AtLowerBound == tick.prev_pid.integral <= -INTEGRAL_LIMIT

\* C26: an update that finds the integral at or beyond a bound, with no
\* reset pending, leaves it unchanged when the error points further out,
\* and when the error points the other way leaves the integral equal to
\* that error: off the bound it was at, and strictly inside (-30, 30)
\* whenever the error is.
C26_NotStuckAtBound ==
    (UpdateMade /\ ~tick.prev_pid.need_reset) =>
       /\ (AtUpperBound /\ UpdateError > 0) =>
             pid.integral = tick.prev_pid.integral
       /\ (AtLowerBound /\ UpdateError < 0) =>
             pid.integral = tick.prev_pid.integral
       /\ ((AtUpperBound /\ UpdateError < 0)
              \/ (AtLowerBound /\ UpdateError > 0)) =>
             /\ pid.integral = UpdateError
             /\ Abs(UpdateError) < INTEGRAL_LIMIT =>
                   /\ -INTEGRAL_LIMIT < pid.integral
                   /\ pid.integral < INTEGRAL_LIMIT

\* The integral stood at 40 after 20, 20; an update with -3 leaves -3.
C26_Witness ==
    /\ UpdateMade
    /\ tick.prev_pid = [old_value |-> 20000, integral |-> 40000,
                        need_reset |-> FALSE]
    /\ UpdateError = -3000
    /\ pid.integral = -3000

\* the previous error the last update worked with: the error itself when a
\* reset was pending
PreviousError ==
    IF tick.prev_pid.need_reset THEN UpdateError ELSE tick.prev_pid.old_value

\* C27: update(e) returns Kp*e + Ki*I + Kd*(e - p), p the previous error
\* after any pending reset and I the integral the call leaves behind, which
\* is the one found, zeroed by a reset or a sign flip, then accumulated; the
\* call leaves previous_error = e.
C27_OutputFormula ==
    UpdateMade =>
       /\ UpdateOut = KP * UpdateError + KI * pid.integral
                         + KD * (UpdateError - PreviousError)
       /\ pid.integral =
             LET zeroed == tick.prev_pid.need_reset
                             \/ CopySign(UpdateError) # CopySign(PreviousError)
                 found == IF zeroed THEN 0 ELSE tick.prev_pid.integral
             IN  IF -INTEGRAL_LIMIT < found /\ found < INTEGRAL_LIMIT
                 THEN found + UpdateError ELSE found
       /\ pid.old_value = UpdateError

\* An update with all three terms at work: 20 after 5 with integral 10.
C27_Witness ==
    /\ UpdateMade
    /\ tick.prev_pid = [old_value |-> 5000, integral |-> 10000,
                        need_reset |-> FALSE]
    /\ UpdateError = 20000
    /\ pid.integral = 30000
    /\ UpdateOut = KP * 20000 + KI * 30000 + KD * 15000

\* C30: after every update the integral is zero or has the sign of the
\* stored previous error, a previous error of 0.0 counting as positive the
\* way copysign counts it; in particular the two never have strictly
\* opposite signs.
C30_IntegralSignOfError ==
    UpdateMade =>
       /\ pid.integral = 0 \/ CopySign(pid.integral) = CopySign(pid.old_value)
       /\ ~(pid.integral > 0 /\ pid.old_value < 0)
       /\ ~(pid.integral < 0 /\ pid.old_value > 0)

\* An update on the other side of the setpoint from a built-up integral.
C30_Witness ==
    /\ UpdateMade
    /\ ~tick.prev_pid.need_reset
    /\ tick.prev_pid.integral >= 10000
    /\ UpdateError < 0
    /\ pid.integral < 0
    /\ pid.old_value < 0

\* the last iteration ran to its end
Stepped == tick.elapsed_ms > 0 /\ ~tick.raised
\* ceil(a / b) for positive integers
CeilDiv(a, b) == (a + b - 1) \div b

\* C28: a loop iteration broadcasts exactly when the time accumulated since
\* the last broadcast has reached 100 ms, the timer is then zero, and the
\* broadcast is the ceil(100 / T)-th iteration since the last one.
C28_BroadcastCadence ==
    Stepped =>
       /\ tick.broadcast <=> tick.elapsed_ms >= BROADCAST_INTERVAL
       /\ tick.broadcast =>
             /\ broadcast_timer = FloatZero
             /\ tick.steps_since = CeilDiv(BROADCAST_INTERVAL, timestep)

\* C29: two consecutive sensor ticks are 50 ms of simulated time apart,
\* whatever the time step.
C29_SensorCadence ==
    (tick.sensed /\ tick.sensor_gap > 0) => tick.sensor_gap = SENSOR_PERIOD

\* C31: an iteration that ends in Manual leaves the brake intensity and
\* the PID state as they were, and the steering too unless a trim key was
\* read; the angle filter still takes the camera reading of a sensor tick.
C31_ManualTickFrame ==
    [][(ctl_pc = "loop" /\ ~autodrive') =>
          /\ driver'.brake = driver.brake
          /\ pid' = pid
          /\ tick'.key \notin {"LEFT", "RIGHT"} =>
                /\ steering_angle' = steering_angle
                /\ driver'.steering = driver.steering
          /\ (tick'.sensed /\ has_camera) =>
                filter' = FilterUpdate(filter, tick'.cam).filter]_vars

\* C31 witness: a sensor tick in Manual with a lane in sight, after Manual
\* was entered earlier, the partial brake of Auto still commanded.
C31_Witness ==
    /\ has_camera /\ ~autodrive /\ ~tick.prev_autodrive
    /\ tick.sensed /\ tick.key = "none"
    /\ tick.cam # UNKNOWN
    /\ filter # tick.prev_filter
    /\ driver.brake = PARTIAL_BRAKE

TrimAccepted == TrimKey /\ manual_steer # tick.prev_manual
\* the angle the trim counter stands for
TrimAngle == manual_steer * TRIM_STEP

\* C33 as stated: after an accepted trim step the stored steering angle is
\* manual_steer * 0.02, also when Auto has steered before.
C33_TrimSetsAngle ==
    TrimAccepted => steering_angle = TrimAngle

\* C33 amended: without a camera the stored angle is manual_steer * 0.02 in
\* every state; in general an accepted trim step stores manual_steer * 0.02
\* when that is within 0.1 rad of the angle stored before, and otherwise
\* the angle stored before moved by 0.1 rad towards it.
C33_TrimSetsAngleRateLimited ==
    /\ ~has_camera => steering_angle = TrimAngle
    /\ TrimAccepted =>
          LET delta == TrimAngle - tick.prev_angle
          IN  /\ Abs(delta) <= RATE_LIMIT => steering_angle = TrimAngle
              /\ delta > RATE_LIMIT =>
                    steering_angle = tick.prev_angle + RATE_LIMIT
              /\ delta < -RATE_LIMIT =>
                    steering_angle = tick.prev_angle - RATE_LIMIT

\* C33 witness: a single trim step right after Auto has steered, the stored
\* angle more than 0.1 rad away from what the counter stands for.
C33_Witness ==
    /\ TrimAccepted
    /\ tick.prev_autodrive
    /\ tick.prev_manual = 0
    /\ tick.prev_angle - TrimAngle > RATE_LIMIT
    /\ steering_angle = tick.prev_angle - RATE_LIMIT
    /\ steering_angle # TrimAngle

\* C34: of two consecutive calls of the steering actuator, (a) when both
\* have the same target t, the stored angle is t after the second or 0.1 rad
\* nearer to t than before, and a forwarded angle that was clamp(t) stays
\* clamp(t); (b) when the first target lay beyond an authority bound and
\* the second lies inside, the second call forwards an angle nearer to its
\* target than the angle forwarded before.
C34_ForwardedFollowsTarget ==
    [][(tick.log # <<>> /\ tick'.log # <<>>) =>
          LET old == tick.log[1]
              new == tick'.log[1]
          IN  /\ new.arg = old.arg =>
                    /\ \/ new.val = new.arg
                       \/ Abs(new.val - new.arg)
                             = Abs(old.val - new.arg) - RATE_LIMIT
                    /\ old.out = Forwarded(old.arg) =>
                          new.out = Forwarded(new.arg)
              /\ (Abs(old.arg) > AUTHORITY /\ Abs(new.arg) <= AUTHORITY
                     /\ old.out # new.arg) =>
                    Abs(new.out - new.arg) < Abs(old.out - new.arg)]_vars

\* C35: update returns an event only when the last confirm_frames frames
\* all showed the same sign, and the event and current_sign_mph carry that
\* sign; current_sign_mph is set by no other update; a frame without a
\* detection empties the buffer, forgets the confirmed sign and the
\* overspeed timer and returns nothing.
C35_ConfirmedOnly ==
    seen.call = "update" =>
       /\ seen.event # NoEvent =>
             /\ seen.top # None
             /\ seen.streak >= CONFIRM_FRAMES
             /\ seen.event.sign_confirmed_mph = seen.top
             /\ decision.current_sign_mph = seen.top
       /\ (seen.event = NoEvent /\ seen.top # None) =>
             decision.current_sign_mph = seen.prev.current_sign_mph
       /\ seen.top = None =>
             /\ seen.event = NoEvent
             /\ decision.recent_speeds = <<>>
             /\ decision.current_sign_mph = None
             /\ decision.overspeed_start_ts = None

\* C35 witness: an event from exactly confirm_frames fresh detections after
\* a frame without one.
C35_Witness ==
    /\ seen.event # NoEvent
    /\ seen.streak = CONFIRM_FRAMES
    /\ seen.cleared_at = now - CONFIRM_FRAMES * FramePeriod
    /\ seen.calls > CONFIRM_FRAMES + 1

\* C36: is_overspeed is reported only at the end of an unbroken run of
\* updates, at least overspeed_hold_seconds long, in each of which the
\* vehicle was moving at the confirmed limit plus tolerance or faster, the
\* confirmed sign being the same throughout.
C36_OverspeedHeld ==
    seen.event.is_overspeed =>
       /\ seen.run_start # None
       /\ now - seen.run_start >= OVERSPEED_HOLD

\* C37: two accepted alerts are at least alert_cooldown_seconds apart, and
\* once the events of the frames have had is_overspeed for longer than the
\* cooldown without a break, an overspeed alert has been accepted.
C37_AlertsSpacedAndDelivered ==
    /\ seen.alert_gap # None => seen.alert_gap >= ALERT_COOLDOWN
    /\ (seen.over_since # None /\ now - seen.over_since > ALERT_COOLDOWN) =>
          seen.over_alerted

\* C38: a lookup whose key was stored within the TTL, whatever outcome was
\* stored, makes no request and returns the stored outcome; a lookup whose
\* key is not stored, or was stored longer ago than the TTL, makes one.
C38_EveryOutcomeCached ==
    seen.call = "lookup" =>
       LET stored == seen.key \in DOMAIN seen.prev_store
           item == seen.prev_store[seen.key]
       IN  IF stored /\ now - item.ts <= MAP_CACHE_SECONDS
           THEN ~seen.requested /\ seen.value = item.value
           ELSE seen.requested

\* C39: while the listener sleeps between attempts the vehicle is marked
\* not connected and the next attempt is retry_interval away; whenever
\* connected is false the speed held by WebotsVehicleState is the fallback
\* speed; and connected is true only while the connection is open and has
\* delivered at least one packet.
C39_FallbackWhileUnreachable ==
    /\ bridge.pc = "sleep" =>
          ~vehicle.connected /\ bridge.wake = now + RETRY_INTERVAL
    /\ ~vehicle.connected => vehicle.speed_mph = FALLBACK_SPEED_MPH
    /\ vehicle.connected => bridge.pc = "recv" /\ bridge.packets >= 1

====
